---- MODULE Spec2Model ----
(***************************************************************************)
(* A model of the weewx-jas extension (src/bin/user/jas.py).               *)
(*                                                                         *)
(* The extension has four independent pieces of behaviour, each modelled   *)
(* as its own state machine over its own variables:                        *)
(*   SpecJAS    JAS.__init__: the order in which configuration is read     *)
(*   SpecCache  DataGenerator.__init__: the weather API call and the       *)
(*              hourly JSON cache files                                    *)
(*   SpecRun    ChartGenerator.run / DataGenerator.run: the output         *)
(*              directory and the per-page output files                    *)
(*   SpecWind   DataGenerator._get_wind_compass: the wind-rose histogram   *)
(* A machine that is not running keeps its variables at their initial      *)
(* (idle) values.                                                          *)
(***************************************************************************)
EXTENDS Integers, Sequences, FiniteSets, TLC

VARIABLES
    \* ---- JAS.__init__ ----
    skin_keys,      \* the configuration keys that are present
    jas_pc,         \* index of the next statement of __init__, 0 = returned/raised
    jas_exc,        \* the exception __init__ raised, "none" if none
    jas_read,       \* the configuration keys __init__ has looked up so far
    \* ---- DataGenerator.__init__ ----
    now,            \* time.time(), in seconds
    ticks,          \* how often the clock has advanced
    data_dir,       \* <HTML_ROOT>/data: "absent", "dir" or "file"
    files,          \* forecast.json, current.json, raw.forecast.json
    dg_pc,          \* position inside DataGenerator.__init__, "idle" between two
    dg_cfg,         \* the skin_dict options the running constructor was given
    dg_exc,         \* the exception the last constructor raised, "none" if none
    has_urls,       \* whether self.forecast_url / self.current_url are set
    current_hour,   \* local of the running _get_current_obs / _get_forecasts
    api_last,       \* outcome of the urlopen() of the running _call_api
    api_data,       \* what the running _call_api returned
    calls,          \* HTTP requests per endpoint issued by this constructor
    data_current,   \* self.data_current
    data_forecast,  \* self.data_forecast
    entry,          \* the files and the clock as the running _get_* found them
    fetched,        \* per cache file, the hours at which a response was fetched
    \* ---- ChartGenerator.run / DataGenerator.run ----
    run_gen,        \* the generator whose run() is executing, "none" if none
    run_pc,         \* position inside run()
    run_cfg,        \* the options run() was started with
    run_todo,       \* the pages the loop of run() has still to visit
    run_page,       \* the page whose file is being written
    run_opts,       \* that page's options
    run_exc,        \* the exception run() raised or is about to re-raise
    run_mk,         \* what os.makedirs did in this run()
    run_version,    \* how many runs have started: the content they generate
    dirs,           \* the 'charts' and 'dataload' directories
    fs,             \* per generator and page: the .js file and its .tmp file
    \* ---- DataGenerator._get_wind_compass ----
    wind_pc,        \* position inside _get_wind_compass
    wind_series,    \* the samples of the series read so far
    wind_data,      \* wind_data, one entry per compass ordinal, in order
    wind_result,    \* what _get_wind_compass returned
    \* ---- ChartGenerator._gen_chart_common ----
    chart_def,      \* chart_defs[chart]: the options in configuration order
    chart_pc,       \* "config" while the chart is defined, then "done"
    iter_text,      \* what _iterdict returned for chart_def
    common_text,    \* what _gen_chart_common returned
    chart_exc,      \* the exception _gen_chart_common raised, "none" if none
    \* ---- _get_observations_information ----
    obs_cfg,        \* the skin_dict['Extras'] sections the method reads
    obs_pc,         \* position inside _get_observations_information
    observations,   \* the nested dictionary observations, as the set of its key paths
    aggregate_types, \* the keys of the dictionary aggregate_types
    obs_exc,        \* the exception the method raised, "none" if none
    \* ---- the generated JavaScript: the 'current' section in the browser ----
    br_pc,          \* "closed", "loading" or "ready": the page in the browser tab
    jasOptions,     \* jasOptions of the page that is loaded
    br_data,        \* which generation of the server's data the page has loaded
    storage,        \* sessionStorage: header, updateDate, observations, the items
    dom,            \* what the page shows: header, updateDateDiv, <name>_value
    br_event,       \* the handler that ran last
    br_msg,         \* the payload of the MQTT message handled last
    \* ---- JASGenerator._skip_generation ----
    skip_pc,        \* "idle" or "returned"
    skip_args,      \* the arguments and the files' state of the call
    skip_result,    \* what _skip_generation returned
    \* ---- ChartGenerator._gen_series ----
    series_pc,      \* "idle", "defined", "generated" or "executed"
    series_type,    \* the series type of the page or of the chart on the page
    series_value,   \* the chart's series section: per observation its aggregate type
    series_js,      \* the statements _gen_series returned, in text order
    aggregate_interval, \* the JavaScript global when 'var option' is reached
    \* ---- ChartGenerator._gen_charts: charts_javascript ----
    charts_pc,      \* "idle" before the ChartGenerator is made, then "made"
    chart_defs,     \* self.chart_defs: per chart its definition
    default_grid_properties, \* chart_defaults.properties.grid.yAxis
    charts_javascript, \* self.charts_javascript: per chart and series type the common text
    charts_present, \* the charts that are keys of self.charts_javascript
    charts_hits,    \* how many charts of the last page had their text in the cache
    charts_chart2,  \* per chart of that page, the common text put in chart2
    charts_returned, \* per chart and series type, how often _gen_chart_common returned
    charts_exc,     \* the exception the last _gen_charts ended with, or "none"
    \* ---- JAS._get_range and ChartGenerator._get_range ----
    range_pc,       \* "idle", then "called"
    range_args,     \* start, end and the first and last year of the archive
    range_jas,      \* what JAS._get_range gave, once it is called
    range_chart     \* what ChartGenerator._get_range gave, once it is called

jasVars == <<skin_keys, jas_pc, jas_exc, jas_read>>

cacheVars ==
    <<now, ticks, data_dir, files, dg_pc, dg_cfg, dg_exc, has_urls,
      current_hour, api_last, api_data, calls, data_current, data_forecast,
      entry, fetched>>

runVars ==
    <<run_gen, run_pc, run_cfg, run_todo, run_page, run_opts, run_exc, run_mk,
      run_version, dirs, fs>>

windVars == <<wind_pc, wind_series, wind_data, wind_result>>

chartVars == <<chart_def, chart_pc, iter_text, common_text, chart_exc>>

obsVars == <<obs_cfg, obs_pc, observations, aggregate_types, obs_exc>>

browserVars == <<br_pc, jasOptions, br_data, storage, dom, br_event, br_msg>>

skipVars == <<skip_pc, skip_args, skip_result>>

seriesVars == <<series_pc, series_type, series_value, series_js, aggregate_interval>>

chartsVars == <<charts_pc, chart_defs, default_grid_properties, charts_javascript, charts_present, charts_hits, charts_chart2, charts_returned, charts_exc>>

rangeVars == <<range_pc, range_args, range_jas, range_chart>>

vars ==
    <<jasVars, cacheVars, runVars, windVars, chartVars, obsVars, browserVars,
      skipVars, seriesVars, chartsVars, rangeVars>>

\* What the actions of one machine leave alone: the other machines.
notJAS ==
    <<cacheVars, runVars, windVars, chartVars, obsVars, browserVars,
      skipVars, seriesVars, chartsVars, rangeVars>>

notCache ==
    <<jasVars, runVars, windVars, chartVars, obsVars, browserVars, skipVars,
      seriesVars, chartsVars, rangeVars>>

notRun ==
    <<jasVars, cacheVars, windVars, chartVars, obsVars, browserVars,
      skipVars, seriesVars, chartsVars, rangeVars>>

notWind ==
    <<jasVars, cacheVars, runVars, chartVars, obsVars, browserVars, skipVars,
      seriesVars, chartsVars, rangeVars>>

notChart ==
    <<jasVars, cacheVars, runVars, windVars, obsVars, browserVars, skipVars,
      seriesVars, chartsVars, rangeVars>>

notObs ==
    <<jasVars, cacheVars, runVars, windVars, chartVars, browserVars,
      skipVars, seriesVars, chartsVars, rangeVars>>

notBrowser ==
    <<jasVars, cacheVars, runVars, windVars, chartVars, obsVars, skipVars,
      seriesVars, chartsVars, rangeVars>>

notSkip ==
    <<jasVars, cacheVars, runVars, windVars, chartVars, obsVars, browserVars,
      seriesVars, chartsVars, rangeVars>>

notSeries ==
    <<jasVars, cacheVars, runVars, windVars, chartVars, obsVars, browserVars,
      skipVars, chartsVars, rangeVars>>

notCharts ==
    <<jasVars, cacheVars, runVars, windVars, chartVars, obsVars, browserVars,
      skipVars, seriesVars, rangeVars>>

notRange ==
    <<jasVars, cacheVars, runVars, windVars, chartVars, obsVars, browserVars,
      skipVars, seriesVars, chartsVars>>

(***************************************************************************)
(* Idle values: the state of a machine that is not running.                *)
(***************************************************************************)

\* Python's None, and the shape every piece of API data has in the model
None == [kind |-> "None", at |-> 0]

Missing == [st |-> "missing", generated |-> -1, data |-> None]

NoConfig == [client |-> "none", display |-> FALSE, pages |-> <<>>]

NoCall == [http |-> "none", json |-> FALSE, success |-> "absent"]

NoFetch == [success |-> -1, stored |-> -1, again |-> {}]

IdleJAS ==
    /\ skin_keys = {}
    /\ jas_pc = 0
    /\ jas_exc = "none"
    /\ jas_read = {}

IdleCache ==
    /\ now = 0
    /\ ticks = 0
    /\ data_dir = "absent"
    /\ files = [f \in {"forecast", "current", "raw"} |-> Missing]
    /\ dg_pc = "idle"
    /\ dg_cfg = NoConfig
    /\ dg_exc = "none"
    /\ has_urls = FALSE
    /\ current_hour = 0
    /\ api_last = NoCall
    /\ api_data = None
    /\ calls = [f \in {"forecast", "current"} |-> 0]
    /\ data_current = None
    /\ data_forecast = None
    /\ entry = [files |-> files, now |-> now]
    /\ fetched = [f \in {"forecast", "current"} |-> NoFetch]

Generators == {"ChartGenerator", "DataGenerator"}

\* The pages of the loop of run(), in the order of the configuration.  The
\* archive holds a single year, so that 'archive-year' has one time span.
RunPages == <<"last24hours", "archive-year">>

Absent0 == [st |-> "absent", v |-> 0]

NoRunConfig == [pages_enable |-> "absent", once |-> FALSE, first_run |-> FALSE]

NoPageOptions == [enable |-> "absent", defined |-> FALSE, series_type |-> "single"]

NoMakedirs == [errno |-> "none", isdir |-> FALSE]

IdleRun ==
    /\ run_gen = "none"
    /\ run_pc = "idle"
    /\ run_cfg = NoRunConfig
    /\ run_todo = <<>>
    /\ run_page = "none"
    /\ run_opts = NoPageOptions
    /\ run_exc = "none"
    /\ run_mk = NoMakedirs
    /\ run_version = 0
    /\ dirs = [g \in Generators |-> "absent"]
    /\ fs = [g \in Generators |->
               [p \in {RunPages[i] : i \in DOMAIN RunPages} |->
                  [js |-> Absent0, tmp |-> Absent0]]]

NoResult == [average |-> <<>>, maximum |-> <<>>, speed_ranges |-> <<>>]

IdleWind ==
    /\ wind_pc = "idle"
    /\ wind_series = <<>>
    /\ wind_data = <<>>
    /\ wind_result = NoResult


IdleChart ==
    /\ chart_def = <<>>
    /\ chart_pc = "idle"
    /\ iter_text = <<>>
    /\ common_text = <<>>
    /\ chart_exc = "none"


NoExtras ==
    [pages_scalar |-> FALSE, p1_enable |-> "absent", p2_enable |-> "absent",
     p2_chart |-> "none", s1_observation |-> "absent",
     s1_aggregate_type |-> "absent", s1_data_binding |-> "absent",
     c1_data_binding |-> "absent",
     minmax |-> [observations |-> <<>>, data_binding |-> "absent"],
     thisdate |-> [present |-> FALSE, has_observations |-> FALSE,
                   observations |-> <<>>, data_binding |-> "absent"]]

IdleObs ==
    /\ obs_cfg = NoExtras
    /\ obs_pc = "idle"
    /\ observations = {}
    /\ aggregate_types = {}
    /\ obs_exc = "none"


Null == [src |-> "null", n |-> 0]

Undefined == [present |-> FALSE, n |-> 0]

CurrentObservations == {"outTemp", "rain"}

NoOptions == [MQTTConfig |-> FALSE, pageMQTT |-> FALSE]

EmptyStorage ==
    [header |-> Null, updateDate |-> Null, observations |-> FALSE,
     items |-> [o \in CurrentObservations |-> Null]]

BlankPage ==
    [header |-> Null, updateDate |-> Null,
     values |-> [o \in CurrentObservations |-> Null]]

NoMessage ==
    [dateTime |-> Undefined, fields |-> [o \in CurrentObservations |-> Undefined]]

IdleBrowser ==
    /\ br_pc = "closed"
    /\ jasOptions = NoOptions
    /\ br_data = 0
    /\ storage = EmptyStorage
    /\ dom = BlankPage
    /\ br_event = "none"
    /\ br_msg = NoMessage


NoSkipArgs ==
    [once |-> FALSE, first_run |-> FALSE, interval_type |-> "active",
     exists |-> FALSE, includes |-> FALSE, generate_interval |-> 0,
     stop_ts |-> 0, age |-> 0, utc_offset |-> 0]

IdleSkip ==
    /\ skip_pc = "idle"
    /\ skip_args = NoSkipArgs
    /\ skip_result = FALSE


IdleSeries ==
    /\ series_pc = "idle"
    /\ series_type = "none"
    /\ series_value = <<>>
    /\ series_js = <<>>
    /\ aggregate_interval = "undefined"


IdleCharts ==
    /\ charts_pc = "idle"
    /\ chart_defs = <<>>
    /\ default_grid_properties = <<>>
    /\ charts_javascript = <<>>
    /\ charts_present = {}
    /\ charts_hits = 0
    /\ charts_chart2 = <<>>
    /\ charts_returned = <<>>
    /\ charts_exc = "none"


NotCalled == [exc |-> "not called", start_year |-> 0, end_year |-> 0]

NoRangeArgs ==
    [start |-> [none |-> TRUE, str |-> <<>>],
     end |-> [none |-> TRUE, str |-> <<>>],
     first_year |-> 0, last_year |-> 0]

IdleRange ==
    /\ range_pc = "idle"
    /\ range_args = NoRangeArgs
    /\ range_jas = NotCalled
    /\ range_chart = NotCalled

(***************************************************************************)
(* JAS.__init__                                                            *)
(***************************************************************************)

\* The configuration keys JAS.__init__ looks up (skin_dict, and WEEWX_ROOT
\* of config_dict).  "thisdate" and "thisdate.observations" live under
\* Extras, as does "mqtt".
ConfigKeys ==
    {"lang", "Extras", "data_binding", "thisdate", "thisdate.observations",
     "WEEWX_ROOT", "SKIN_ROOT", "skin", "mqtt"}

LangRequired == "AttributeError: 'lang' setting is required."

KeyError(key) == "KeyError: " \o key

\* The statements of JAS.__init__ that look up configuration, in program
\* order.  Each names the key it looks up; "need" says what a missing key
\* does: "lang" raises AttributeError, "key" raises KeyError (a subscript),
\* "opt" is a membership test that only selects a branch.
JASInitOrderLangLate ==
    << [key |-> "Extras",                need |-> "key"],
       [key |-> "data_binding",          need |-> "key"],
       [key |-> "lang",                  need |-> "lang"],
       [key |-> "thisdate",              need |-> "opt"],
       [key |-> "thisdate.observations", need |-> "key"],
       [key |-> "WEEWX_ROOT",            need |-> "key"],
       [key |-> "SKIN_ROOT",             need |-> "key"],
       [key |-> "skin",                  need |-> "key"],
       [key |-> "mqtt",                  need |-> "key"] >>

JASInitOrder ==
    << [key |-> "lang",                  need |-> "lang"],
       [key |-> "Extras",                need |-> "key"],
       [key |-> "data_binding",          need |-> "key"],
       [key |-> "thisdate",              need |-> "opt"],
       [key |-> "thisdate.observations", need |-> "key"],
       [key |-> "WEEWX_ROOT",            need |-> "key"],
       [key |-> "SKIN_ROOT",             need |-> "key"],
       [key |-> "skin",                  need |-> "key"],
       [key |-> "mqtt",                  need |-> "key"] >>

JASStmt == JASInitOrder[jas_pc]

JASAdvance ==
    jas_pc' = IF jas_pc < Len(JASInitOrder) THEN jas_pc + 1 ELSE 0

\* if 'lang' not in self.skin_dict: raise AttributeError(...)
JASCheckLang ==
    /\ jas_pc > 0
    /\ JASStmt.need = "lang"
    /\ jas_read' = jas_read \cup {JASStmt.key}
    /\ IF JASStmt.key \in skin_keys
          THEN JASAdvance /\ UNCHANGED jas_exc
          ELSE jas_pc' = 0 /\ jas_exc' = LangRequired
    /\ UNCHANGED <<skin_keys, notJAS>>

\* a subscript d['key']: KeyError when the key is missing
JASSubscript ==
    /\ jas_pc > 0
    /\ JASStmt.need = "key"
    /\ jas_read' = jas_read \cup {JASStmt.key}
    /\ IF JASStmt.key \in skin_keys
          THEN JASAdvance /\ UNCHANGED jas_exc
          ELSE jas_pc' = 0 /\ jas_exc' = KeyError(JASStmt.key)
    /\ UNCHANGED <<skin_keys, notJAS>>

\* if 'thisdate' in self.skin_dict['Extras']: the branch that subscripts
\* ['thisdate']['observations'] is taken only when the section is there
JASMembership ==
    /\ jas_pc > 0
    /\ JASStmt.need = "opt"
    /\ jas_read' = jas_read \cup {JASStmt.key}
    /\ IF JASStmt.key \in skin_keys
          THEN jas_pc' = jas_pc + 1
          ELSE jas_pc' = jas_pc + 2
    /\ UNCHANGED <<skin_keys, jas_exc, notJAS>>

InitJAS ==
    /\ skin_keys \in SUBSET ConfigKeys
    /\ jas_pc = 1
    /\ jas_exc = "none"
    /\ jas_read = {}
    /\ IdleCache
    /\ IdleRun
    /\ IdleWind
    /\ IdleChart
    /\ IdleObs
    /\ IdleBrowser
    /\ IdleSkip
    /\ IdleSeries
    /\ IdleCharts
    /\ IdleRange

NextJAS == JASCheckLang \/ JASSubscript \/ JASMembership

SpecJAS == InitJAS /\ [][NextJAS]_vars

\* C1: constructing JAS with a skin dictionary that has no 'lang' key raises
\* AttributeError "'lang' setting is required.", whatever other keys are
\* present or missing, and no other configuration key is looked up first.
C1_LangRequired ==
    "lang" \notin skin_keys =>
        /\ jas_read \subseteq {"lang"}
        /\ jas_exc \in {"none", LangRequired}
        /\ (jas_pc = 0 => jas_exc = LangRequired)

C1_Witness ==
    /\ "lang" \notin skin_keys
    /\ "Extras" \notin skin_keys
    /\ jas_pc = 0
    /\ jas_exc = LangRequired

(***************************************************************************)
(* DataGenerator.__init__: the weather API and the hourly cache files      *)
(***************************************************************************)

\* How often the clock may advance (by half an hour each time).
MaxTicks == 3

\* current_hour = int(now - now % 3600)
SecondsPerHour == 3600

TickSeconds == SecondsPerHour \div 2

CurrentHourUnrounded(t) == t

CurrentHour(t) == t - (t % SecondsPerHour)

\* if current_hour > forecast_data['generated']: retrieve
IsStaleOrEqual(hour, generated) == hour >= generated

IsStale(hour, generated) == hour > generated

\* ---- file contents ----

Partial == [st |-> "partial", generated |-> -1, data |-> None]

Complete(generated, data) ==
    [st |-> "complete", generated |-> generated, data |-> data]

RawComplete(data) == [st |-> "complete", generated |-> -1, data |-> data]

\* os.path.isfile
IsFile(file) == file.st # "missing"

\* ---- the API ----

\* The 'response' member of a well-formed reply that carries data: the
\* weather as the service knows it at the time of the request.
Payload(t) == [kind |-> "weather", at |-> t]

Absent == [kind |-> "absent", at |-> 0]

EmptyDict == [kind |-> "{}", at |-> 0]

EmptyResponse == [kind |-> "[]", at |-> 0]

\* The text "{}" the URLError handler substitutes for the body.
EmptyBody ==
    [json |-> TRUE, success |-> "absent", error |-> "absent", response |-> Absent]

\* What the server may send: text that is not JSON, or a JSON object with
\* any combination of the envelope's members.
Bodies(t) ==
    {[json |-> FALSE, success |-> "absent", error |-> "absent", response |-> Absent]}
    \cup [json : {TRUE},
          success : {"absent", "false", "true"},
          error : {"absent", "null", "object"},
          response : {Absent, EmptyResponse, Payload(t)}]

\* urlopen(): a reply, an HTTPError (an error status, with a body), a URLError
HttpOutcomes(t) ==
    [http : {"ok", "HTTPError"}, body : Bodies(t)]
    \cup {[http |-> "URLError", body |-> EmptyBody]}

Returns(value) == [exc |-> "none", ret |-> value]

Raises(exception) == [exc |-> exception, ret |-> None]

\* What _call_api sees of an outcome before it looks at the envelope's other
\* members: the kind of outcome, whether the body parsed, the 'success' member
Seen(outcome) ==
    [http |-> outcome.http, json |-> outcome.body.json,
     success |-> outcome.body.success]

\* _call_api, from the outcome of urlopen() to what it returns or raises
CallApi(outcome) ==
    LET body == outcome.body IN
    IF ~body.json THEN Raises("JSONDecodeError")
    ELSE IF body.success = "true"
         THEN IF body.response = Absent
                 THEN Raises(KeyError("response"))
                 ELSE Returns(body.response)
    ELSE IF body.error = "null" THEN Raises("TypeError")
    ELSE Returns(EmptyDict)

\* "if data is not None:" is true for {} and for an empty response
NotNoneData(data) == data # None

\* "if data:" is false for {} and for an empty response
Truthy(data) == data \notin {EmptyDict, EmptyResponse}

\* forecast_data['forecasts'] as built from the periods of the response
ForecastsOf(payload) == [kind |-> "forecasts", at |-> payload.at]

EmptyForecasts == [kind |-> "no forecasts", at |-> 0]

\* current_data['current'] as built from the 'ob' of the response
CurrentOf(payload) == [kind |-> "observation", at |-> payload.at]

EmptyCurrent == [kind |-> "no observation", at |-> 0]

\* ---- directories ----

\* os.makedirs(path): what becomes of the path, and the errno raised
Makedirs(dir, fault) ==
    IF dir # "absent" THEN [dir |-> dir, errno |-> "EEXIST"]
    ELSE IF fault = "none" THEN [dir |-> "dir", errno |-> "none"]
    ELSE [dir |-> "absent", errno |-> fault]

Faults == {"none", "EACCES"}

\* mkdir_p: except OSError: if errno == EEXIST and os.path.isdir(path): pass
MkdirPSuppresses(errno, isdir) == errno = "EEXIST" /\ isdir

\* ---- configuration ----

DGPages == {"index"}

PageOptions == [enable : BOOLEAN, forecast : {"none", "on", "off"}]

DGConfigs ==
    [client : {"none", "id", "id+secret"},
     display : BOOLEAN,
     pages : [DGPages -> PageOptions]]

\* _check_forecast
CheckForecast(cfg) ==
    \E page \in DOMAIN cfg.pages :
        /\ cfg.pages[page].enable
        /\ cfg.pages[page].forecast # "none"
        /\ cfg.pages[page].forecast = "on"

\* ---- the constructor, statement by statement ----

DGRaise(exception) ==
    /\ dg_exc' = exception
    /\ dg_pc' = "raised"

\* mkdir_p(path): os.makedirs, with EEXIST on a directory suppressed
MkdirP(dir, fault) ==
    LET made == Makedirs(dir, fault) IN
    [dir |-> made.dir,
     exc |-> IF made.errno = "none" \/ MkdirPSuppresses(made.errno, made.dir = "dir")
                THEN "none"
                ELSE "OSError " \o made.errno]

\* The report engine constructs a DataGenerator for a report cycle:
\* __init__ up to self.mkdir_p(os.path.join(self.html_root, 'data'))
DGInit ==
    /\ dg_pc = "idle"
    /\ \E cfg \in DGConfigs : dg_cfg' = cfg
    /\ \E fault \in Faults :
         LET made == MkdirP(data_dir, fault) IN
         /\ data_dir' = made.dir
         /\ IF made.exc = "none"
               THEN dg_pc' = "urls" /\ UNCHANGED dg_exc
               ELSE DGRaise(made.exc)
    /\ entry' = [files |-> files, now |-> now]
    /\ UNCHANGED <<now, ticks, files, has_urls, current_hour, api_last, api_data,
                   calls, data_current, data_forecast, fetched, notCache>>

\* client_id = ...get('client_id'); if client_id: client_secret = ...['client_secret']
DGSetUrls ==
    /\ dg_pc = "urls"
    /\ IF dg_cfg.client = "id"
          THEN DGRaise(KeyError("client_secret")) /\ UNCHANGED has_urls
          ELSE /\ has_urls' = (dg_cfg.client = "id+secret")
               /\ dg_pc' = "current"
               /\ UNCHANGED dg_exc
    /\ UNCHANGED <<now, ticks, data_dir, files, dg_cfg, current_hour, api_last,
                   api_data, calls, data_current, data_forecast, entry,
                   fetched, notCache>>

\* Whether a step of _get_current_obs / _get_forecasts goes on to _retrieve_*
MustRetrieve(file, hour) ==
    \/ ~IsFile(file)
    \/ file.st = "complete" /\ IsStale(hour, file.generated)

\* if to_bool(...get('display_aeris_observation', False)):
\*     self.data_current = self._get_current_obs()
DGGetCurrentObs ==
    /\ dg_pc = "current"
    /\ entry' = [files |-> files, now |-> now]
    /\ IF ~dg_cfg.display
          THEN /\ dg_pc' = "forecast"
               /\ UNCHANGED <<current_hour, data_current, dg_exc>>
          ELSE /\ current_hour' = CurrentHour(now)
               /\ IF MustRetrieve(files.current, CurrentHour(now))
                     THEN dg_pc' = "cur_call" /\ UNCHANGED <<dg_exc, data_current>>
                  ELSE IF files.current.st = "partial"
                     THEN DGRaise("JSONDecodeError") /\ UNCHANGED data_current
                  ELSE /\ data_current' = files.current.data
                       /\ dg_pc' = "forecast"
                       /\ UNCHANGED dg_exc
    /\ UNCHANGED <<now, ticks, data_dir, files, dg_cfg, has_urls, api_last,
                   api_data, calls, data_forecast, fetched, notCache>>

\* How many requests one constructor may issue to one endpoint before the
\* model stops counting.
MaxCalls == 3

\* Where _retrieve_* goes after _call_api has returned: always on, to the
\* statements that store the data ("again" would be a retry).
NextAfterCallRetry(data, again, onward) ==
    IF Truthy(data) THEN onward ELSE again

NextAfterCall(data, again, onward) == onward

\* The log of fetches: the hour of the last call that _call_api answered
\* with the reply's 'response' ("success"), the hour of the last fetch whose
\* data reached the cache file ("stored"), and which of the two has happened
\* twice for the same hour ("again").
Logged(log, outcome, result, hour) ==
    IF outcome.body.success = "true" /\ result.exc = "none"
       THEN [log EXCEPT !.success = hour,
                        !.again = IF hour = log.success
                                     THEN @ \cup {"success"} ELSE @]
       ELSE log

LoggedStored(log, hour) ==
    [log EXCEPT !.stored = hour,
                !.again = IF hour = log.stored THEN @ \cup {"stored"} ELSE @]

\* data = self._call_api(self.<endpoint>_url)
DGCallApi(endpoint, again, onward) ==
    /\ dg_pc = again
    /\ IF ~has_urls
          THEN /\ DGRaise("AttributeError: " \o endpoint \o "_url")
               /\ UNCHANGED <<api_last, api_data, calls, fetched>>
          ELSE /\ calls[endpoint] < MaxCalls
               /\ \E outcome \in HttpOutcomes(now) :
                    LET result == CallApi(outcome) IN
                    /\ api_last' = Seen(outcome)
                    /\ calls' = [calls EXCEPT ![endpoint] = @ + 1]
                    /\ fetched' = [fetched EXCEPT ![endpoint] =
                                      Logged(@, outcome, result, current_hour)]
                    /\ api_data' = result.ret
                    /\ IF result.exc # "none"
                          THEN DGRaise(result.exc)
                          ELSE /\ dg_pc' = NextAfterCall(result.ret, again, onward)
                               /\ UNCHANGED dg_exc
    /\ UNCHANGED <<now, ticks, data_dir, files, dg_cfg, has_urls, current_hour,
                   data_current, data_forecast, entry, notCache>>

\* _retrieve_current: the call
DGRetrieveCurrent == DGCallApi("current", "cur_call", "cur_store")

\* _retrieve_forecasts: the call
DGRetrieveForecasts == DGCallApi("forecast", "fc_call", "raw_open")

\* A cache file is opened with open(name, "w"), which truncates it, and
\* json.dump then writes into it.
OpenForWrite(name) == files' = [files EXCEPT ![name] = Partial]

\* _retrieve_current: if data: ... with open(self.current_filename, "w")
DGStoreCurrent ==
    /\ dg_pc = "cur_store"
    /\ api_last' = NoCall
    /\ IF Truthy(api_data)
          THEN /\ OpenForWrite("current")
               /\ dg_pc' = "cur_write"
               /\ UNCHANGED data_current
          ELSE /\ data_current' = EmptyCurrent
               /\ dg_pc' = "forecast"
               /\ UNCHANGED files
    /\ UNCHANGED <<now, ticks, data_dir, dg_cfg, dg_exc, has_urls, current_hour,
                   api_data, calls, data_forecast, entry, fetched, notCache>>

\* json.dump(current_data, current_fp): it completes, or fails part-way
DGWriteCurrent ==
    /\ dg_pc = "cur_write"
    /\ \/ /\ files' = [files EXCEPT !.current =
                          Complete(current_hour, CurrentOf(api_data))]
          /\ data_current' = CurrentOf(api_data)
          /\ fetched' = [fetched EXCEPT !.current = LoggedStored(@, current_hour)]
          /\ dg_pc' = "forecast"
          /\ UNCHANGED dg_exc
       \/ /\ DGRaise("OSError write")
          /\ UNCHANGED <<files, data_current, fetched>>
    /\ UNCHANGED <<now, ticks, data_dir, dg_cfg, has_urls, current_hour, api_last,
                   api_data, calls, data_forecast, entry, notCache>>

\* if self._check_forecast(): self.data_forecast = self._get_forecasts()
DGGetForecasts ==
    /\ dg_pc = "forecast"
    /\ entry' = [files |-> files, now |-> now]
    /\ IF ~CheckForecast(dg_cfg)
          THEN /\ dg_pc' = "done"
               /\ UNCHANGED <<current_hour, data_forecast, dg_exc>>
          ELSE /\ current_hour' = CurrentHour(now)
               /\ IF MustRetrieve(files.forecast, CurrentHour(now))
                     THEN dg_pc' = "fc_call" /\ UNCHANGED <<dg_exc, data_forecast>>
                  ELSE IF files.forecast.st = "partial"
                     THEN DGRaise("JSONDecodeError") /\ UNCHANGED data_forecast
                  ELSE /\ data_forecast' = files.forecast.data
                       /\ dg_pc' = "done"
                       /\ UNCHANGED dg_exc
    /\ UNCHANGED <<now, ticks, data_dir, files, dg_cfg, has_urls, api_last,
                   api_data, calls, data_current, fetched, notCache>>

\* _retrieve_forecasts: with open(self.raw_forecast_data_file, "w")
DGOpenRaw ==
    /\ dg_pc = "raw_open"
    /\ OpenForWrite("raw")
    /\ dg_pc' = "raw_write"
    /\ api_last' = NoCall
    /\ UNCHANGED <<now, ticks, data_dir, dg_cfg, dg_exc, has_urls, current_hour,
                   api_data, calls, data_current, data_forecast, entry,
                   fetched, notCache>>

\* json.dump(data, raw_forecast_fp): it completes, or fails part-way
DGWriteRaw ==
    /\ dg_pc = "raw_write"
    /\ \/ /\ files' = [files EXCEPT !.raw = RawComplete(api_data)]
          /\ dg_pc' = "fc_store"
          /\ UNCHANGED dg_exc
       \/ /\ DGRaise("OSError write")
          /\ UNCHANGED files
    /\ UNCHANGED <<now, ticks, data_dir, dg_cfg, has_urls, current_hour, api_last,
                   api_data, calls, data_current, data_forecast, entry,
                   fetched, notCache>>

\* _retrieve_forecasts: if data: ... with open(self.forecast_filename, "w")
DGStoreForecasts ==
    /\ dg_pc = "fc_store"
    /\ IF Truthy(api_data)
          THEN /\ OpenForWrite("forecast")
               /\ dg_pc' = "fc_write"
               /\ UNCHANGED data_forecast
          ELSE /\ data_forecast' = EmptyForecasts
               /\ dg_pc' = "done"
               /\ UNCHANGED files
    /\ UNCHANGED <<now, ticks, data_dir, dg_cfg, dg_exc, has_urls, current_hour,
                   api_last, api_data, calls, data_current, entry, fetched,
                   notCache>>

\* json.dump(forecast_data, forecast_fp): it completes, or fails part-way
DGWriteForecasts ==
    /\ dg_pc = "fc_write"
    /\ \/ /\ files' = [files EXCEPT !.forecast =
                          Complete(current_hour, ForecastsOf(api_data))]
          /\ data_forecast' = ForecastsOf(api_data)
          /\ fetched' = [fetched EXCEPT !.forecast = LoggedStored(@, current_hour)]
          /\ dg_pc' = "done"
          /\ UNCHANGED dg_exc
       \/ /\ DGRaise("OSError write")
          /\ UNCHANGED <<files, data_forecast, fetched>>
    /\ UNCHANGED <<now, ticks, data_dir, dg_cfg, has_urls, current_hour, api_last,
                   api_data, calls, data_current, entry, notCache>>

\* The constructor returns, or the exception it raised reaches the report
\* engine: either way this DataGenerator's part in the cache is over.
DGInitReturn ==
    /\ dg_pc \in {"done", "raised"}
    /\ dg_pc' = "idle"
    /\ dg_cfg' = NoConfig
    /\ dg_exc' = "none"
    /\ has_urls' = FALSE
    /\ current_hour' = 0
    /\ api_last' = NoCall
    /\ api_data' = None
    /\ calls' = [f \in {"forecast", "current"} |-> 0]
    /\ data_current' = None
    /\ data_forecast' = None
    /\ entry' = [files |-> files, now |-> now]
    /\ UNCHANGED <<now, ticks, data_dir, files, fetched, notCache>>

\* Time passes (time.time() never runs backwards here).  The constructor
\* reads the clock at the start of _get_current_obs and of _get_forecasts,
\* so time passing between two constructors and between the two reads is
\* all that it can observe.
Tick ==
    /\ dg_pc \in {"idle", "forecast"}
    /\ ticks < MaxTicks
    /\ ticks' = ticks + 1
    /\ now' = now + TickSeconds
    /\ UNCHANGED <<data_dir, files, dg_pc, dg_cfg, dg_exc, has_urls, current_hour,
                   api_last, api_data, calls, data_current, data_forecast,
                   entry, fetched, notCache>>

InitCache ==
    /\ IdleJAS
    /\ IdleRun
    /\ IdleWind
    /\ IdleChart
    /\ IdleObs
    /\ IdleBrowser
    /\ IdleSkip
    /\ IdleSeries
    /\ IdleCharts
    /\ IdleRange
    /\ now = SecondsPerHour
    /\ ticks = 0
    /\ data_dir \in {"absent", "file"}
    /\ files = [f \in {"forecast", "current", "raw"} |-> Missing]
    /\ dg_pc = "idle"
    /\ dg_cfg = NoConfig
    /\ dg_exc = "none"
    /\ has_urls = FALSE
    /\ current_hour = 0
    /\ api_last = NoCall
    /\ api_data = None
    /\ calls = [f \in {"forecast", "current"} |-> 0]
    /\ data_current = None
    /\ data_forecast = None
    /\ entry = [files |-> files, now |-> now]
    /\ fetched = [f \in {"forecast", "current"} |-> NoFetch]

NextCache ==
    \/ DGInit
    \/ DGSetUrls
    \/ DGGetCurrentObs
    \/ DGRetrieveCurrent
    \/ DGStoreCurrent
    \/ DGWriteCurrent
    \/ DGGetForecasts
    \/ DGRetrieveForecasts
    \/ DGOpenRaw
    \/ DGWriteRaw
    \/ DGStoreForecasts
    \/ DGWriteForecasts
    \/ DGInitReturn
    \/ Tick

SpecCache == InitCache /\ [][NextCache]_vars

(***************************************************************************)
(* Claims about _call_api and the cache                                    *)
(***************************************************************************)

CacheFiles == {"forecast", "current"}

\* The running constructor has come back from _get_current_obs
\* ("current") or from _get_forecasts ("forecast").
Returned(f) ==
    IF f = "current"
       THEN dg_pc = "forecast" /\ dg_cfg.display
       ELSE dg_pc = "done" /\ CheckForecast(dg_cfg)

\* self.data_current / self.data_forecast
Result(f) == IF f = "current" THEN data_current ELSE data_forecast

HourOf(t) == (t \div 3600) * 3600

\* C2: _call_api never propagates an exception: whatever urlopen() did, it
\* returns, and it returns {} when the request failed (URLError) or the
\* envelope's 'success' is absent or false.
C2_CallApiNeverRaises ==
    api_last.http # "none" =>
        /\ dg_exc = "none"
        /\ (api_last.http = "URLError" \/ api_last.success # "true")
              => api_data = EmptyDict

\* C3: cache hit: when the cache file exists and its 'generated' is at least
\* the current hour, _get_forecasts / _get_current_obs makes no API call,
\* writes no file and returns the cached value unchanged.
C3_CacheHit ==
    \A f \in CacheFiles :
        LET cached == entry.files[f] IN
        (Returned(f) /\ cached.st = "complete"
                     /\ cached.generated >= HourOf(entry.now))
        => /\ calls[f] = 0
           /\ files = entry.files
           /\ Result(f) = cached.data

C3_Witness ==
    /\ Returned("forecast")
    /\ entry.files.forecast.st = "complete"
    /\ entry.files.forecast.generated = HourOf(entry.now)
    /\ entry.now > entry.files.forecast.generated
    /\ data_forecast = ForecastsOf(Payload(entry.files.forecast.generated))
    /\ calls.forecast = 0

FreshData(f, payload) ==
    IF f = "current" THEN CurrentOf(payload) ELSE ForecastsOf(payload)

C4_AtReturn ==
    \A f \in CacheFiles :
        LET cached == entry.files[f] IN
        /\ "stored" \notin fetched[f].again
        /\ (Returned(f) /\ (cached.st = "missing"
                            \/ (cached.st = "complete"
                                /\ HourOf(entry.now) > cached.generated)))
           => calls[f] = 1
        /\ (Returned(f) /\ calls[f] = 1 /\ Truthy(api_data))
           => /\ files[f] = Complete(HourOf(entry.now), FreshData(f, api_data))
              /\ Result(f) = FreshData(f, api_data)
              /\ api_data.at >= entry.now
        /\ (Returned(f) /\ cached.st = "complete" /\ files[f].st = "complete")
           => files[f].generated >= cached.generated

C4_GeneratedNeverDecreases ==
    \A f \in CacheFiles :
        (files[f].st = "complete" /\ files'[f].st = "complete")
        => files'[f].generated >= files[f].generated

C5_NoRetries == \A f \in CacheFiles : calls[f] <= 1

C5_Witness ==
    /\ dg_pc = "done"
    /\ calls.current = 1
    /\ calls.forecast = 1
    /\ api_data = EmptyDict
    /\ data_forecast = EmptyForecasts

\* C7: the cache files are written via a temporary file and a rename, so a
\* failure in the middle of a cache write never leaves a partially written
\* cache file for the next invocation.
C7_CacheWritesAtomic ==
    dg_pc \in {"idle", "raised"} =>
        \A f \in {"forecast", "current", "raw"} : files[f].st # "partial"

\* what the caller gets when nothing was retrieved
EmptyData(f) == IF f = "current" THEN EmptyCurrent ELSE EmptyForecasts

\* the API call of this invocation for f yielded an empty result
YieldedEmpty(f) == calls[f] = 1 /\ api_data \in {EmptyDict, EmptyResponse}

\* C21: a failed retrieval does not touch the parsed cache: when the API
\* call yields an empty result, forecast.json (current.json) is left exactly
\* as it was, 'generated' included, the caller gets an empty forecast list
\* (an empty 'observation') and not the stale cached data, and the file
\* still asks for a retrieval, so that the next invocation, even within the
\* same clock hour, calls the API again: an invocation that finds the file
\* missing or older than the current hour always calls the API.
C21_FailedRetrievalLeavesCache ==
    /\ \A f \in CacheFiles :
          /\ (Returned(f) /\ YieldedEmpty(f)) =>
                 /\ files[f] = entry.files[f]
                 /\ Result(f) = EmptyData(f)
                 /\ Result(f) # entry.files[f].data
                 /\ MustRetrieve(files[f], HourOf(now))
          /\ (Returned(f) /\ MustRetrieve(entry.files[f], HourOf(entry.now)))
                 => calls[f] = 1
    /\ (dg_pc \in {"raw_open", "raw_write", "fc_store", "raised"}
           /\ YieldedEmpty("forecast")) =>
              files.forecast = entry.files.forecast

\* for the second time within a clock hour the API was called and its
\* response was empty; the stale forecast.json is as it was and the caller
\* has an empty list
C21_Witness ==
    /\ Returned("forecast")
    /\ YieldedEmpty("forecast")
    /\ "success" \in fetched.forecast.again
    /\ entry.files.forecast.st = "complete"
    /\ entry.files.forecast.generated < HourOf(entry.now)
    /\ files.forecast = entry.files.forecast
    /\ data_forecast = EmptyForecasts

\* C23: calling the weather API is optional: when Extras.client_id is not
\* configured, constructing a DataGenerator makes no HTTP request and still
\* completes, with no forecast and no current-observation data, even if an
\* enabled page has an enabled forecast section or
\* display_aeris_observation is on, and whether or not a cache file exists.
\* (A constructor that could not make its data directory is left aside.)
C23_ApiOptional ==
    (dg_cfg.client = "none" /\ dg_pc \notin {"idle", "urls"}
        /\ dg_exc \notin {"OSError EEXIST", "OSError EACCES"}) =>
        /\ \A f \in CacheFiles : calls[f] = 0
        /\ dg_exc = "none"
        /\ data_current = None
        /\ data_forecast = None

(***************************************************************************)
(* ChartGenerator.run and DataGenerator.run                                *)
(***************************************************************************)

\* How many runs are followed.
MaxRuns == 3

PartialOf(v) == [st |-> "partial", v |-> v]

CompleteOf(v) == [st |-> "complete", v |-> v]

PageNames == {RunPages[i] : i \in DOMAIN RunPages}

\* The value of an option as configobj holds it: a string, or absent.
PageOptions2 ==
    [enable : {"absent", "false"},
     defined : BOOLEAN,
     series_type : {"single", "multiple"}]

RunConfigs ==
    [pages_enable : {"absent", "false"}, once : BOOLEAN, first_run : BOOLEAN]

\* What _skip_generation reads besides the file: whether the time span
\* includes stop_ts, whether a generate interval is given, whether the file
\* is younger than it, whether stop_ts is on an aggregation boundary.
SkipInputs ==
    [includes : BOOLEAN, interval : BOOLEAN, young : BOOLEAN, boundary : BOOLEAN]

\* dict.get(key, True) used as a condition: the default when the key is
\* absent, else the truth of the string, and any non-empty string is true
GetTruthy(value) == IF value = "absent" THEN TRUE ELSE value # ""

\* the condition of the loop over the pages
PageSelected(gen, cfg, opts) ==
    /\ GetTruthy(cfg.pages_enable)
    /\ opts.defined
    /\ gen = "DataGenerator" => opts.series_type = "single"

\* period_type as run() sets it from the page's name
PeriodType(page) == IF page = "archive-year" THEN "historical" ELSE "active"

\* _skip_generation
SkipGeneration(cfg, period_type, exists, in) ==
    IF cfg.once /\ ~cfg.first_run THEN TRUE
    ELSE IF period_type = "historical" /\ exists /\ ~in.includes THEN TRUE
    ELSE IF ~in.interval \/ ~exists THEN FALSE
    ELSE IF ~in.young THEN FALSE
    ELSE IF in.boundary THEN FALSE
    ELSE TRUE

\* run(): except OSError: pass
RunSuppresses(errno, isdir) == TRUE

\* The file run() opens for writing: tmpname = filename + '.tmp'
WriteTargetInPlace == "js"

WriteTarget == "tmp"

RunRaise(exception) ==
    /\ run_exc' = exception
    /\ run_pc' = "raised"

\* The report engine calls run(); without a first timestamp in the archive
\* run() returns at once.
RunStart ==
    /\ run_pc = "idle"
    /\ run_version < MaxRuns
    /\ run_version' = run_version + 1
    /\ \E gen \in Generators, cfg \in RunConfigs, start_ts \in BOOLEAN :
         IF start_ts
            THEN run_gen' = gen /\ run_cfg' = cfg /\ run_pc' = "mkdir"
            ELSE UNCHANGED <<run_gen, run_cfg, run_pc>>
    /\ UNCHANGED <<run_todo, run_page, run_opts, run_exc, run_mk, dirs, fs, notRun>>

\* try: os.makedirs(destination_dir) except OSError: pass
RunMakedirs ==
    /\ run_pc = "mkdir"
    /\ \E fault \in Faults :
         LET made == Makedirs(dirs[run_gen], fault) IN
         /\ dirs' = [dirs EXCEPT ![run_gen] = made.dir]
         /\ run_mk' = [errno |-> made.errno, isdir |-> made.dir = "dir"]
         /\ IF made.errno = "none" \/ RunSuppresses(made.errno, made.dir = "dir")
               THEN /\ run_pc' = "loop"
                    /\ run_todo' = RunPages
                    /\ UNCHANGED run_exc
               ELSE /\ RunRaise("OSError " \o made.errno)
                    /\ UNCHANGED run_todo
    /\ UNCHANGED <<run_gen, run_cfg, run_page, run_opts, run_version, fs, notRun>>

\* for page_name in ...['pages'].sections: the next page is selected and not
\* skipped, and its content is generated, or the loop moves on
RunNextPage ==
    /\ run_pc = "loop"
    /\ run_todo # <<>>
    /\ run_todo' = Tail(run_todo)
    /\ \E opts \in PageOptions2, in \in SkipInputs :
         LET page == Head(run_todo)
             exists == fs[run_gen][page].js.st # "absent"
         IN IF /\ PageSelected(run_gen, run_cfg, opts)
               /\ ~SkipGeneration(run_cfg, PeriodType(page), exists, in)
               THEN /\ run_page' = page
                    /\ run_opts' = opts
                    /\ run_pc' = "open"
               ELSE UNCHANGED <<run_page, run_opts, run_pc>>
    /\ UNCHANGED <<run_gen, run_cfg, run_exc, run_mk, run_version, dirs, fs, notRun>>

\* with open(tmpname, mode='wb'): the file is created empty, unless the
\* directory is not there
RunOpen ==
    /\ run_pc = "open"
    /\ IF dirs[run_gen] # "dir"
          THEN /\ run_exc' = "FileNotFoundError"
               /\ run_pc' = "finally"
               /\ UNCHANGED fs
          ELSE /\ fs' = [fs EXCEPT ![run_gen][run_page][WriteTarget] =
                            PartialOf(run_version)]
               /\ run_pc' = "write"
               /\ UNCHANGED run_exc
    /\ UNCHANGED <<run_gen, run_cfg, run_todo, run_page, run_opts, run_mk,
                   run_version, dirs, notRun>>

\* temp_file.write(byte_string): it completes, or fails part-way
RunWrite ==
    /\ run_pc = "write"
    /\ \/ /\ fs' = [fs EXCEPT ![run_gen][run_page][WriteTarget] =
                       CompleteOf(run_version)]
          /\ run_pc' = "rename"
          /\ UNCHANGED run_exc
       \/ /\ run_exc' = "OSError write"
          /\ run_pc' = "finally"
          /\ UNCHANGED fs
    /\ UNCHANGED <<run_gen, run_cfg, run_todo, run_page, run_opts, run_mk,
                   run_version, dirs, notRun>>

\* os.rename(tmpname, filename): the temporary file replaces the file
RunRename ==
    /\ run_pc = "rename"
    /\ run_pc' = "finally"
    /\ LET file == fs[run_gen][run_page] IN
       IF file.tmp.st = "absent"
          THEN run_exc' = "FileNotFoundError" /\ UNCHANGED fs
          ELSE \/ /\ fs' = [fs EXCEPT ![run_gen][run_page] =
                               [js |-> file.tmp, tmp |-> Absent0]]
                  /\ UNCHANGED run_exc
               \/ /\ run_exc' = "OSError rename"
                  /\ UNCHANGED fs
    /\ UNCHANGED <<run_gen, run_cfg, run_todo, run_page, run_opts, run_mk,
                   run_version, dirs, notRun>>

\* finally: try: os.unlink(tmpname) except OSError: pass
RunFinally ==
    /\ run_pc = "finally"
    /\ fs' = [fs EXCEPT ![run_gen][run_page].tmp = Absent0]
    /\ run_pc' = IF run_exc = "none" THEN "loop" ELSE "raised"
    /\ run_page' = "none"
    /\ run_opts' = NoPageOptions
    /\ UNCHANGED <<run_gen, run_cfg, run_todo, run_exc, run_mk, run_version,
                   dirs, notRun>>

\* run() returns after the last page, or its exception reaches the engine
RunReturn ==
    /\ \/ run_pc = "loop" /\ run_todo = <<>>
       \/ run_pc = "raised"
    /\ run_pc' = "idle"
    /\ run_gen' = "none"
    /\ run_cfg' = NoRunConfig
    /\ run_todo' = <<>>
    /\ run_exc' = "none"
    /\ run_mk' = NoMakedirs
    /\ UNCHANGED <<run_page, run_opts, run_version, dirs, fs, notRun>>

InitRun ==
    /\ IdleJAS
    /\ IdleCache
    /\ IdleWind
    /\ IdleChart
    /\ IdleObs
    /\ IdleBrowser
    /\ IdleSkip
    /\ IdleSeries
    /\ IdleCharts
    /\ IdleRange
    /\ run_gen = "none"
    /\ run_pc = "idle"
    /\ run_cfg = NoRunConfig
    /\ run_todo = <<>>
    /\ run_page = "none"
    /\ run_opts = NoPageOptions
    /\ run_exc = "none"
    /\ run_mk = NoMakedirs
    /\ run_version = 0
    /\ dirs \in [Generators -> {"absent", "dir", "file"}]
    /\ fs = [g \in Generators |->
               [p \in PageNames |-> [js |-> Absent0, tmp |-> Absent0]]]

NextRun ==
    \/ RunStart
    \/ RunMakedirs
    \/ RunNextPage
    \/ RunOpen
    \/ RunWrite
    \/ RunRename
    \/ RunFinally
    \/ RunReturn

SpecRun == InitRun /\ [][NextRun]_vars

\* Every .js file holds complete content or does not exist.
C6_NeverPartial ==
    \A g \in Generators, p \in PageNames : fs[g][p].js.st # "partial"

\* A step leaves a .js file as it was or replaces it by the complete content
\* this run generates.
C6_OldOrNew ==
    \A g \in Generators, p \in PageNames :
        \/ fs'[g][p].js = fs[g][p].js
        \/ fs'[g][p].js = CompleteOf(run_version)

\* C6: run() never writes a page's output file in place: the content goes to
\* '<filename>.tmp', which is then renamed onto <filename>, so that in every
\* state, a failure part-way through the write included, the file does not
\* exist, holds its previous complete content or holds the new one.
C6_AtomicPageWrite == []C6_NeverPartial /\ [][C6_OldOrNew]_vars

C6_Witness ==
    /\ run_pc = "finally"
    /\ run_exc = "OSError write"
    /\ fs[run_gen][run_page].tmp = PartialOf(run_version)
    /\ fs[run_gen][run_page].js = CompleteOf(run_version - 1)

\* C8: a directory creation suppresses an OSError only when it means that
\* the directory already exists (EEXIST, and the path is a directory); every
\* other failure propagates to the caller.
C8_OnlyExistsSuppressed ==
    (run_mk.errno # "none" /\ ~(run_mk.errno = "EEXIST" /\ run_mk.isdir))
    => run_exc = "OSError " \o run_mk.errno

\* C22: run() writes no output file for a page whose own 'enable' option
\* is false: a file under 'charts' or 'dataload' is written only for a page
\* that is enabled and has a page_definition (and, in DataGenerator.run,
\* whose series_type is 'single').
C22_NoFileForDisabledPage ==
    (run_pc \in {"write", "rename"}
        /\ fs[run_gen][run_page].tmp.v = run_version) =>
        /\ run_opts.enable # "false"
        /\ run_opts.defined
        /\ run_gen = "DataGenerator" => run_opts.series_type = "single"

(***************************************************************************)
(* DataGenerator._get_wind_compass                                         *)
(***************************************************************************)

\* How many samples the series holds at most.
MaxSamples == 3

\* self.formatter.ordinate_names: the compass ordinals in order, with an
\* additional 'N/A' at the end
ordinate_names == <<"N", "E", "S", "W", "N/A">>

\* self.wind_ranges['mile_per_hour']
wind_ranges == <<1, 4, 8, 13, 19, 25, 32>>

wind_ranges_count == 7

\* A sample whose wind speed is None
NoneSpeed == -1

\* The series as the converter hands them on, in miles per hour and degrees
Speeds == {NoneSpeed, 0, 3, 32, 40}

Directions == {10, 100}

Gusts == {40, 50}

Samples == [speed : Speeds, dir : Directions, gust : Gusts]

\* formatter.to_ordinal_compass: the index of the sector of a direction
OrdinalCompass(dir) ==
    LET sector_size == 360 \div (Len(ordinate_names) - 1)
        degree == (dir + sector_size \div 2) % 360
    IN (degree \div sector_size) + 1

\* if wind_speed and wind_speed > 0
Counted(speed) == speed # NoneSpeed /\ speed # 0 /\ speed > 0

\* sum / count as Python computes it, kept as a fraction
Fraction(sum, count) == [num |-> sum, den |-> count]

ZeroAverage == [num |-> 0, den |-> 1]

\* the entry of wind_data of one ordinal before the first sample
NewOrdinal ==
    [sum |-> 0, count |-> 0, max |-> 0,
     speed_data |-> [j \in 1..wind_ranges_count |-> 0]]

\* if wind_gust_data[0][i] > wind_data[ordinate_name]['max']
GustMaxLast(max, gust) == gust

GustMax(max, gust) == IF gust > max THEN gust ELSE max

\* for wind_range in self.wind_ranges[wind_unit]: if wind_speed < wind_range:
\* the index of the first range above the speed, 0 when the loop ends
\* without a break
RECURSIVE RangeIndexFrom(_, _)
RangeIndexFrom(speed, j) ==
    IF j > Len(wind_ranges) THEN 0
    ELSE IF speed < wind_ranges[j] THEN j
    ELSE RangeIndexFrom(speed, j + 1)

RangeIndex(speed) == RangeIndexFrom(speed, 1)

\* one pass of the loop over the samples, for a sample that counts
AddSample(data, sample) ==
    LET k == OrdinalCompass(sample.dir)
        j == RangeIndex(sample.speed)
        old == data[k]
    IN [data EXCEPT ![k] =
          [sum |-> old.sum + sample.speed,
           count |-> old.count + 1,
           max |-> GustMax(old.max, sample.gust),
           speed_data |-> IF j = 0 THEN old.speed_data
                          ELSE [old.speed_data EXCEPT ![j] = @ + 1]]]

\* wind_data[ordinate_name]['average']
Average(entry_k) ==
    IF entry_k.count > 0 THEN Fraction(entry_k.sum, entry_k.count)
    ELSE ZeroAverage

\* the three lists _get_wind_compass returns
Collect(data) ==
    [average |-> [k \in DOMAIN data |-> Average(data[k])],
     maximum |-> [k \in DOMAIN data |-> data[k].max],
     speed_ranges |-> [j \in 1..wind_ranges_count |->
                         [k \in DOMAIN data |-> data[k].speed_data[j]]]]

\* _get_wind_compass is called: wind_data gets an entry per ordinal
WindStart ==
    /\ wind_pc = "idle"
    /\ wind_pc' = "loop"
    /\ wind_series' = <<>>
    /\ wind_data' = [k \in 1..(Len(ordinate_names) - 1) |-> NewOrdinal]
    /\ wind_result' = NoResult
    /\ UNCHANGED notWind

\* for wind_speed in wind_speed_data[0]: one sample
WindSample ==
    /\ wind_pc = "loop"
    /\ Len(wind_series) < MaxSamples
    /\ \E sample \in Samples :
         /\ wind_series' = Append(wind_series, sample)
         /\ wind_data' = IF Counted(sample.speed)
                            THEN AddSample(wind_data, sample)
                            ELSE wind_data
    /\ UNCHANGED <<wind_pc, wind_result, notWind>>

\* the series is exhausted: the averages, the three lists, return
WindReturn ==
    /\ wind_pc = "loop"
    /\ wind_pc' = "done"
    /\ wind_result' = Collect(wind_data)
    /\ UNCHANGED <<wind_series, wind_data, notWind>>

InitWind ==
    /\ IdleJAS
    /\ IdleCache
    /\ IdleRun
    /\ IdleWind
    /\ IdleChart
    /\ IdleObs
    /\ IdleBrowser
    /\ IdleSkip
    /\ IdleSeries
    /\ IdleCharts
    /\ IdleRange

NextWind == WindStart \/ WindSample \/ WindReturn

SpecWind == InitWind /\ [][NextWind]_vars

RECURSIVE SumSeq(_)
SumSeq(seq) == IF seq = <<>> THEN 0 ELSE Head(seq) + SumSeq(Tail(seq))

\* the samples of the series that count for ordinal k
SamplesOf(k) ==
    SelectSeq(wind_series,
              LAMBDA sample : sample.speed > 0 /\ OrdinalCompass(sample.dir) = k)

RECURSIVE SumSpeeds(_)
SumSpeeds(seq) ==
    IF seq = <<>> THEN 0 ELSE Head(seq).speed + SumSpeeds(Tail(seq))

RECURSIVE LargestGust(_)
LargestGust(seq) ==
    IF seq = <<>> THEN 0
    ELSE LET rest == LargestGust(Tail(seq))
         IN IF Head(seq).gust > rest THEN Head(seq).gust ELSE rest

\* C9: every sample with wind speed > 0 is counted exactly once: in 'count'
\* of one ordinal and in one of that ordinal's speed ranges, so that for
\* every ordinal the speed-range counts add up to its sample count.
C9_EverySampleBinned ==
    wind_pc \in {"loop", "done"} =>
        \A k \in DOMAIN wind_data :
            /\ wind_data[k].count = Len(SamplesOf(k))
            /\ SumSeq(wind_data[k].speed_data) = wind_data[k].count

MaxOptions == 2

SectionKeys == {"a", "weewx", "series", "yAxis", "polar", "1"}

ScalarKeys == {"a", "type"}

Option(path, sec, value) ==
    [path |-> path, sec |-> sec, value |-> value, origin |-> path]

\* chart_defs[chart] as _set_chart_defs leaves it for any chart: the series
\* section, and weewx.yAxis.0.weewx.obs set from the first series
BaseChartDef ==
    << Option(<<"series">>, TRUE, ""),
       Option(<<"weewx">>, TRUE, ""),
       Option(<<"weewx", "yAxis">>, TRUE, ""),
       Option(<<"weewx", "yAxis", "0">>, TRUE, ""),
       Option(<<"weewx", "yAxis", "0", "weewx">>, TRUE, ""),
       Option(<<"weewx", "yAxis", "0", "weewx", "obs">>, FALSE, "v") >>

\* chart_defaults.properties.grid.yAxis, with or without the name that
\* asks for the unit label
DefaultOption(key, value) ==
    [path |-> <<key>>, sec |-> FALSE, value |-> value,
     origin |-> <<"chart_defaults", "properties", "grid", "yAxis", key>>]

DefaultYAxes ==
    { <<DefaultOption("type", "v")>>,
      <<DefaultOption("name", "weewx_unit_label"), DefaultOption("type", "v")>> }

IsPrefix(p, q) == Len(p) <= Len(q) /\ SubSeq(q, 1, Len(p)) = p

\* key in dictionary, for a path of keys
Has(dictionary, path) ==
    \E i \in DOMAIN dictionary : dictionary[i].path = path

IsSection(dictionary, path) ==
    \/ path = <<>>
    \/ \E i \in DOMAIN dictionary :
         dictionary[i].path = path /\ dictionary[i].sec

\* dictionary[k1][k2]...: the section at a path, its options relative to it
Subtree(dictionary, p) ==
    LET under == SelectSeq(dictionary,
                     LAMBDA e : Len(e.path) > Len(p) /\ IsPrefix(p, e.path))
    IN [i \in DOMAIN under |->
          [under[i] EXCEPT !.path = SubSeq(@, Len(p) + 1, Len(@))]]

\* dictionary.items(): the options of the section itself, in order
Items(dictionary) == SelectSeq(dictionary, LAMBDA e : Len(e.path) = 1)

Line(indent, kind, key, origin) ==
    [indent |-> indent, kind |-> kind, key |-> key, origin |-> origin]

\* the nested sections _iterdict leaves out
SkippedOnlyWeewx == {"weewx"}

Skipped == {"weewx", "series"}

\* _iterdict: the loop over dictionary.items(), from the options still to do
RECURSIVE IterdictFrom(_, _, _, _)
IterdictFrom(indent, chart2, dictionary, todo) ==
    IF todo = <<>> THEN chart2
    ELSE
      LET e == Head(todo)
          key == e.path[1]
          value == Subtree(dictionary, e.path)
      IN IF e.sec
            THEN IF key \in Skipped
                    THEN IterdictFrom(indent, chart2, dictionary, Tail(todo))
                    ELSE IterdictFrom(indent,
                           Append(IterdictFrom(indent + 2,
                                      Append(chart2,
                                             Line(indent, "open", key, e.origin)),
                                      value, Items(value)),
                                  Line(indent, "close", key, e.origin)),
                           dictionary, Tail(todo))
            ELSE IterdictFrom(indent,
                   Append(chart2, Line(indent, "scalar", key, e.origin)),
                   dictionary, Tail(todo))

Iterdict(indent, chart_js, dictionary) ==
    IterdictFrom(indent, chart_js, dictionary, Items(dictionary))

\* ConfigObj.merge of a section into a section of scalars: an option that
\* is there is replaced where it stands, a new one is added at the end
Merge(self, indict) ==
    [i \in DOMAIN self |->
        IF Has(indict, self[i].path)
           THEN CHOOSE e \in {indict[j] : j \in DOMAIN indict} :
                    e.path = self[i].path
           ELSE self[i]]
    \o SelectSeq(indict, LAMBDA e : ~Has(self, e.path))

\* str(i)
Digits == <<"0", "1", "2", "3", "4", "5", "6", "7", "8", "9">>

Str(i) == Digits[i + 1]

YAxisPath(i) == <<"weewx", "yAxis", Str(i)>>

\* one pass of 'for i in range(0, len(chart_def['weewx']['yAxis']))'
YAxisNamed(def, default, i) ==
    /\ Has(def, YAxisPath(i))
    /\ \E k \in DOMAIN default :
         /\ default[k].path = <<"name">>
         /\ ~Has(Subtree(def, YAxisPath(i)), <<"name">>)
         /\ default[k].value = "weewx_unit_label"

\* chart_def['weewx']['yAxis'][i_str]['weewx'] is looked up for the label
YAxisRaises(def, default, i) ==
    /\ YAxisNamed(def, default, i)
    /\ ~IsSection(def, YAxisPath(i) \o <<"weewx">>)

YAxis(def, default, i) ==
    LET there == Has(def, YAxisPath(i))
        y_axis_default ==
            IF there THEN Merge(default, Subtree(def, YAxisPath(i)))
            ELSE default
        named == YAxisNamed(def, default, i)
        rest == IF named
                   THEN SelectSeq(y_axis_default,
                                  LAMBDA e : e.path # <<"name">>)
                   ELSE y_axis_default
    IN (IF there THEN <<Line(4, "open", "", <<>>)>> ELSE <<>>)
       \o (IF named THEN <<Line(6, "label", "name", <<>>)>> ELSE <<>>)
       \o Iterdict(6, <<>>, rest)
       \o <<Line(4, "close", "", <<>>)>>

RECURSIVE YAxes(_, _, _, _)
YAxes(def, default, i, n) ==
    IF i >= n THEN <<>>
    ELSE YAxis(def, default, i) \o YAxes(def, default, i + 1, n)

NumberOfYAxes(def) == Len(Items(Subtree(def, <<"weewx", "yAxis">>)))

HasYAxisBlock(def) == ~Has(def, <<"yAxis">>) /\ ~Has(def, <<"polar">>)

GenChartCommonRaises(def, default) ==
    /\ HasYAxisBlock(def)
    /\ \E i \in 0..(NumberOfYAxes(def) - 1) : YAxisRaises(def, default, i)

GenChartCommon(def, default) ==
    Iterdict(4, <<>>, def)
    \o (IF HasYAxisBlock(def)
           THEN <<Line(4, "open_list", "yAxis", <<>>)>>
                \o YAxes(def, default, 0, NumberOfYAxes(def))
                \o <<Line(2, "close_list", "", <<>>)>>
           ELSE <<>>)

\* a chart is defined: _set_chart_defs
ChartDefine ==
    /\ chart_pc = "idle"
    /\ chart_pc' = "config"
    /\ chart_def' = BaseChartDef
    /\ UNCHANGED <<iter_text, common_text, chart_exc, notChart>>

\* the site's definition of the chart has one more option; what it puts
\* under weewx.yAxis.0 is not kept by _set_chart_defs
ChartAddOption ==
    /\ chart_pc = "config"
    /\ Len(chart_def) < Len(BaseChartDef) + MaxOptions
    /\ \E i \in 0..Len(chart_def), sec \in BOOLEAN :
         LET parent == IF i = 0 THEN <<>> ELSE chart_def[i].path IN
         \E key \in (IF sec THEN SectionKeys ELSE ScalarKeys) :
            /\ i > 0 => chart_def[i].sec
            /\ ~IsPrefix(YAxisPath(0), parent)
            /\ ~Has(chart_def, parent \o <<key>>)
            /\ chart_def' = Append(chart_def,
                                   Option(parent \o <<key>>, sec,
                                          IF sec THEN "" ELSE "v"))
    /\ UNCHANGED <<chart_pc, iter_text, common_text, chart_exc, notChart>>

\* _gen_chart_common(chart, chart_def)
ChartGenCommon ==
    /\ chart_pc = "config"
    /\ chart_pc' = "done"
    /\ iter_text' = Iterdict(4, <<>>, chart_def)
    /\ \E default \in DefaultYAxes :
         IF GenChartCommonRaises(chart_def, default)
            THEN chart_exc' = "KeyError" /\ common_text' = <<>>
            ELSE /\ chart_exc' = "none"
                 /\ common_text' = GenChartCommon(chart_def, default)
    /\ UNCHANGED <<chart_def, notChart>>

InitChart ==
    /\ IdleJAS
    /\ IdleCache
    /\ IdleRun
    /\ IdleWind
    /\ IdleChart
    /\ IdleObs
    /\ IdleBrowser
    /\ IdleSkip
    /\ IdleSeries
    /\ IdleCharts
    /\ IdleRange

NextChart == ChartDefine \/ ChartAddOption \/ ChartGenCommon

SpecChart == InitChart /\ [][NextChart]_vars

\* An option is hidden when it lies in or below a nested section named
\* 'weewx' or 'series'.
Hidden(path) ==
    \E n \in 1..Len(path) :
        /\ path[n] \in {"weewx", "series"}
        /\ IsSection(chart_def, SubSeq(path, 1, n))

Shown == {i \in DOMAIN chart_def : ~Hidden(chart_def[i].path)}

LinesOf(text, i, kind) ==
    {k \in DOMAIN text :
        /\ text[k].kind = kind
        /\ text[k].origin = chart_def[i].path
        /\ text[k].key = chart_def[i].path[Len(chart_def[i].path)]
        /\ text[k].indent = 4 + 2 * (Len(chart_def[i].path) - 1)}

\* where an option's text starts
StartOf(text, i) ==
    CHOOSE k \in LinesOf(text, i, IF chart_def[i].sec THEN "open" ELSE "scalar") :
        TRUE

Opens(text, k) ==
    Cardinality({j \in 1..k : text[j].kind \in {"open", "open_list"}})

Closes(text, k) ==
    Cardinality({j \in 1..k : text[j].kind \in {"close", "close_list"}})

Balanced(text) ==
    /\ \A k \in DOMAIN text : Closes(text, k) <= Opens(text, k)
    /\ Closes(text, Len(text)) = Opens(text, Len(text))

\* The text mirrors the shown options: a line per scalar, a block per
\* nested section that encloses what is in the section, nothing else, in
\* configuration order.
Mirrors(text) ==
    /\ \A i \in Shown :
         IF chart_def[i].sec
            THEN /\ Cardinality(LinesOf(text, i, "open")) = 1
                 /\ Cardinality(LinesOf(text, i, "close")) = 1
                 /\ LinesOf(text, i, "scalar") = {}
            ELSE /\ Cardinality(LinesOf(text, i, "scalar")) = 1
                 /\ LinesOf(text, i, "open") = {}
                 /\ LinesOf(text, i, "close") = {}
    /\ \A k \in DOMAIN text :
         \E i \in Shown : k \in LinesOf(text, i, text[k].kind)
    /\ \A i, j \in Shown :
         LET p == chart_def[i].path
             q == chart_def[j].path
         IN /\ (IsPrefix(p, q) /\ p # q) =>
                  \A o \in LinesOf(text, i, "open"), c \in LinesOf(text, i, "close") :
                      o < StartOf(text, j) /\ StartOf(text, j) < c
            /\ (i < j /\ Len(p) = Len(q)
                      /\ SubSeq(p, 1, Len(p) - 1) = SubSeq(q, 1, Len(q) - 1)) =>
                  StartOf(text, i) < StartOf(text, j)
    /\ Balanced(text)

\* No line of the text is an option configured under a 'weewx' stanza.
NoWeewxOption(text) ==
    \A k \in DOMAIN text :
        \A n \in 1..(Len(text[k].origin) - 1) : text[k].origin[n] # "weewx"

wind_observations == {"windCompassAverage", "windCompassRange0"}

\* self.data_binding
SkinDataBinding == "wx_binding"

\* an [[observation]] of minmax.observations or thisdate.observations
ListedObservations ==
    [name : {"outTemp", "windCompassAverage"},
     data_binding : {"absent", "alt_binding"},
     unit : {"absent", "degree_C"}]

MinmaxSections ==
    [observations : {<<>>} \cup {<<o>> : o \in ListedObservations},
     data_binding : {"absent", "minmax_binding"}]

ThisdateSections ==
    { [present |-> FALSE, has_observations |-> FALSE,
       observations |-> <<>>, data_binding |-> "absent"],
      [present |-> TRUE, has_observations |-> FALSE,
       observations |-> <<>>, data_binding |-> "absent"],
      [present |-> TRUE, has_observations |-> TRUE,
       observations |-> <<[name |-> "outTemp", data_binding |-> "absent",
                           unit |-> "absent"]>>,
       data_binding |-> "thisdate_binding"],
      [present |-> TRUE, has_observations |-> TRUE,
       observations |-> <<[name |-> "inTemp", data_binding |-> "alt_binding",
                           unit |-> "degree_C"]>>,
       data_binding |-> "absent"] }

\* skin_dict['Extras']: two pages, p1 showing chart c1 and p2 showing c1, c2
\* or a chart that is not defined; chart c1 with the series outTemp and chart
\* c2 with the series barometer
ExtrasSections ==
    [pages_scalar : BOOLEAN,
     p1_enable : {"absent", "false"},
     p2_enable : {"absent", "false"},
     p2_chart : {"c1", "c2", "undefined"},
     s1_observation : {"absent", "inTemp", "windCompassAverage"},
     s1_aggregate_type : {"absent", "max"},
     s1_data_binding : {"absent", "alt_binding"},
     c1_data_binding : {"absent", "chart_binding"},
     minmax : MinmaxSections,
     thisdate : ThisdateSections]

PagesOf(cfg) ==
    << [name |-> "p1", enable |-> cfg.p1_enable, sections |-> <<"c1">>],
       [name |-> "p2", enable |-> cfg.p2_enable, sections |-> <<cfg.p2_chart>>] >>

ChartsOf(cfg) ==
    [chart \in {"c1", "c2"} |->
        IF chart = "c1"
           THEN [data_binding |-> cfg.c1_data_binding,
                 series |-> <<[name |-> "outTemp",
                               observation |-> cfg.s1_observation,
                               aggregate_type |-> cfg.s1_aggregate_type,
                               data_binding |-> cfg.s1_data_binding,
                               unit |-> "absent"]>>]
           ELSE [data_binding |-> "absent",
                 series |-> <<[name |-> "barometer",
                               observation |-> "absent",
                               aggregate_type |-> "absent",
                               data_binding |-> "absent",
                               unit |-> "absent"]>>]]

\* dict.get(key, default)
Get(value, default) == IF value = "absent" THEN default ELSE value

\* 'if not page.get('enable', True): continue'
PageEnabled(enable) == GetTruthy(enable)

\* aggregate_types[aggregate_type] = {}, left out
AddAggregateNever(types, aggregate_type) == types

AddAggregate(types, aggregate_type) == types \cup {aggregate_type}

\* the 'if ... not in ...: ... = {}' statements down to
\* observations[o]['aggregate_types'][aggregate][binding][unit] = {}
Register(acc, observation, aggregate_type, data_binding, unit) ==
    [observations |->
        acc.observations \cup
            { <<observation>>,
              <<observation, aggregate_type>>,
              <<observation, aggregate_type, data_binding>>,
              <<observation, aggregate_type, data_binding, unit>> },
     aggregate_types |-> AddAggregate(acc.aggregate_types, aggregate_type)]

\* the body of 'for obs in series'
ObsOfSeries(acc, chart_data_binding, obs) ==
    LET observation == Get(obs.observation, obs.name)
        obs_data_binding == Get(obs.data_binding, chart_data_binding)
    IN IF observation \in wind_observations THEN acc
       ELSE Register(acc, observation, Get(obs.aggregate_type, "avg"),
                     obs_data_binding, Get(obs.unit, "default"))

RECURSIVE ObsOfSeriesFrom(_, _, _)
ObsOfSeriesFrom(acc, chart_data_binding, series) ==
    IF series = <<>> THEN acc
    ELSE ObsOfSeriesFrom(ObsOfSeries(acc, chart_data_binding, Head(series)),
                         chart_data_binding, Tail(series))

\* the body of 'for chart in pages[page].sections'
ObsOfChart(cfg, acc, chart) ==
    IF chart \in DOMAIN ChartsOf(cfg)
       THEN ObsOfSeriesFrom(acc,
                Get(ChartsOf(cfg)[chart].data_binding, SkinDataBinding),
                ChartsOf(cfg)[chart].series)
       ELSE acc

RECURSIVE ObsOfChartsFrom(_, _, _)
ObsOfChartsFrom(cfg, acc, charts) ==
    IF charts = <<>> THEN acc
    ELSE ObsOfChartsFrom(cfg, ObsOfChart(cfg, acc, Head(charts)), Tail(charts))

\* 'for page in pages'
RECURSIVE ObsOfPagesFrom(_, _, _)
ObsOfPagesFrom(cfg, acc, pages) ==
    IF pages = <<>> THEN acc
    ELSE IF ~PageEnabled(Head(pages).enable)
            THEN ObsOfPagesFrom(cfg, acc, Tail(pages))
            ELSE ObsOfPagesFrom(cfg,
                     ObsOfChartsFrom(cfg, acc, Head(pages).sections),
                     Tail(pages))

\* the body of the loops over minmax.observations and thisdate.observations
ObsOfListedMinOnly(acc, section_data_binding, listed) ==
    LET data_binding == Get(listed.data_binding, section_data_binding)
        unit == Get(listed.unit, "default")
    IN IF listed.name \in wind_observations THEN acc
       ELSE Register(acc, listed.name, "min", data_binding, unit)

ObsOfListed(acc, section_data_binding, listed) ==
    LET data_binding == Get(listed.data_binding, section_data_binding)
        unit == Get(listed.unit, "default")
    IN IF listed.name \in wind_observations THEN acc
       ELSE Register(Register(acc, listed.name, "min", data_binding, unit),
                     listed.name, "max", data_binding, unit)

RECURSIVE ObsOfListedFrom(_, _, _)
ObsOfListedFrom(acc, section_data_binding, todo) ==
    IF todo = <<>> THEN acc
    ELSE ObsOfListedFrom(ObsOfListed(acc, section_data_binding, Head(todo)),
                         section_data_binding, Tail(todo))

ObsNow == [observations |-> observations, aggregate_types |-> aggregate_types]

ObsSet(acc) ==
    /\ observations' = acc.observations
    /\ aggregate_types' = acc.aggregate_types

ObsRaise(exception) ==
    /\ obs_exc' = exception
    /\ obs_pc' = "raised"
    /\ UNCHANGED <<observations, aggregate_types>>

\* _get_observations_information is called
ObsStart ==
    /\ obs_pc = "idle"
    /\ obs_cfg' \in ExtrasSections
    /\ obs_pc' = "pages"
    /\ UNCHANGED <<observations, aggregate_types, obs_exc, notObs>>

\* 'for page in pages': a scalar option of the pages section is a key of
\* pages too, and a string has no get()
ObsPages ==
    /\ obs_pc = "pages"
    /\ IF obs_cfg.pages_scalar
          THEN ObsRaise("AttributeError")
          ELSE /\ ObsSet(ObsOfPagesFrom(obs_cfg, ObsNow, PagesOf(obs_cfg)))
               /\ obs_pc' = "minmax"
               /\ UNCHANGED obs_exc
    /\ UNCHANGED <<obs_cfg, notObs>>

\* 'if minmax_observations:'
ObsMinmax ==
    /\ obs_pc = "minmax"
    /\ ObsSet(ObsOfListedFrom(ObsNow,
                  Get(obs_cfg.minmax.data_binding, SkinDataBinding),
                  obs_cfg.minmax.observations))
    /\ obs_pc' = "thisdate"
    /\ UNCHANGED <<obs_cfg, obs_exc, notObs>>

\* 'if 'thisdate' in self.skin_dict['Extras']:', and the return
ObsThisdate ==
    /\ obs_pc = "thisdate"
    /\ IF ~obs_cfg.thisdate.present
          THEN /\ obs_pc' = "done"
               /\ UNCHANGED <<observations, aggregate_types, obs_exc>>
          ELSE IF ~obs_cfg.thisdate.has_observations
                  THEN ObsRaise("KeyError")
                  ELSE /\ ObsSet(ObsOfListedFrom(ObsNow,
                                     Get(obs_cfg.thisdate.data_binding,
                                         SkinDataBinding),
                                     obs_cfg.thisdate.observations))
                       /\ obs_pc' = "done"
                       /\ UNCHANGED obs_exc
    /\ UNCHANGED <<obs_cfg, notObs>>

InitObs ==
    /\ IdleJAS
    /\ IdleCache
    /\ IdleRun
    /\ IdleWind
    /\ IdleChart
    /\ IdleObs
    /\ IdleBrowser
    /\ IdleSkip
    /\ IdleSeries
    /\ IdleCharts
    /\ IdleRange

NextObs == ObsStart \/ ObsPages \/ ObsMinmax \/ ObsThisdate

SpecObs == InitObs /\ [][NextObs]_vars

\* the keys of observations
ObsKeys == {p[1] : p \in {q \in observations : Len(q) = 1}}

\* the observation of the series of a chart
SeriesObservations(cfg, chart) ==
    IF chart \in DOMAIN ChartsOf(cfg)
       THEN {Get(ChartsOf(cfg)[chart].series[i].observation,
                 ChartsOf(cfg)[chart].series[i].name) :
                i \in DOMAIN ChartsOf(cfg)[chart].series}
       ELSE {}

\* the observations of the charts placed on a page whose enable is not false
Charted(cfg) ==
    UNION {SeriesObservations(cfg, PagesOf(cfg)[i].sections[j]) :
             i \in {k \in DOMAIN PagesOf(cfg) : PagesOf(cfg)[k].enable # "false"},
             j \in {1}}

ListedNames(cfg) ==
    {cfg.minmax.observations[i].name : i \in DOMAIN cfg.minmax.observations}
    \cup {cfg.thisdate.observations[i].name :
             i \in DOMAIN cfg.thisdate.observations}

\* C12: the observations dictionary has a key for the observation of every
\* series of every defined chart placed on a page whose 'enable' option is
\* not false, it has no key that comes only from a chart on pages with
\* enable = false, and the windCompass* pseudo-observations are never keys.
C12_ObservationsAreTheCharted ==
    obs_pc = "done" =>
        /\ (Charted(obs_cfg) \ wind_observations) \subseteq ObsKeys
        /\ ObsKeys \subseteq Charted(obs_cfg) \cup ListedNames(obs_cfg)
        /\ ObsKeys \cap wind_observations = {}

\* the aggregate types in use: the keys of observations[o]['aggregate_types']
UsedAggregates == {p[2] : p \in {q \in observations : Len(q) = 2}}

Extends(p, q) == Len(q) = Len(p) + 1 /\ SubSeq(q, 1, Len(p)) = p

\* every path ends in a unit: observations[o]['aggregate_types'][a][b][u]
LeafShape ==
    \A p \in observations :
        /\ Len(p) \in 1..4
        /\ Len(p) > 1 => SubSeq(p, 1, Len(p) - 1) \in observations
        /\ Len(p) < 4 => \E q \in observations : Extends(p, q)

\* C13: after _get_observations_information a name is a key of
\* aggregate_types if and only if it is a key of
\* observations[o]['aggregate_types'] for some observation o, and every leaf
\* of observations is observations[o]['aggregate_types'][a][binding][unit].
C13_AggregateTypesAreTheUsed ==
    obs_pc = "done" =>
        /\ aggregate_types = UsedAggregates
        /\ LeafShape

C13_Witness ==
    /\ obs_pc = "done"
    /\ aggregate_types = {"avg", "max", "min"}
    /\ <<"inTemp", "max", "alt_binding", "default">> \in observations
    /\ <<"barometer", "avg", "wx_binding", "default">> \in observations

\* the data binding and the unit a listed observation is registered under
ListedBinding(section, listed) ==
    IF listed.data_binding # "absent" THEN listed.data_binding
    ELSE IF section.data_binding # "absent" THEN section.data_binding
    ELSE SkinDataBinding

ListedUnit(listed) == IF listed.unit # "absent" THEN listed.unit ELSE "default"

MinMaxRegistered(section) ==
    \A i \in DOMAIN section.observations :
        LET listed == section.observations[i] IN
        listed.name \notin wind_observations =>
            \A aggregate \in {"min", "max"} :
                <<listed.name, aggregate, ListedBinding(section, listed),
                  ListedUnit(listed)>> \in observations

C14_AtReturn ==
    obs_pc = "done" =>
        /\ MinMaxRegistered(obs_cfg.minmax)
        /\ MinMaxRegistered(obs_cfg.thisdate)

C14_NothingRemoved ==
    obs_pc \in {"minmax", "thisdate"} =>
        /\ observations \subseteq observations'
        /\ aggregate_types \subseteq aggregate_types'

\* C14: every non-wind observation listed under minmax.observations or
\* thisdate.observations is registered with 'min' and with 'max', under the
\* data binding of the observation, else of its section, else of the skin,
\* and under its unit, else 'default'; and registering them removes nothing
\* a chart series registered before.
C14_MinMaxRegistered == []C14_AtReturn /\ [][C14_NothingRemoved]_vars

C14_Witness ==
    /\ obs_pc = "done"
    /\ obs_cfg.minmax.observations # <<>>
    /\ obs_cfg.thisdate.has_observations
    /\ <<"outTemp", "avg", "wx_binding", "default">> \in observations
    /\ <<"outTemp", "min", "minmax_binding", "degree_C">> \in observations
    /\ <<"outTemp", "max", "thisdate_binding", "default">> \in observations


(***************************************************************************)
(* The JavaScript JAS._gen_js generates for a page with a 'current'        *)
(* section: updateCurrentObservations, updateCurrentMQTT, handleMQTT.      *)
(*                                                                         *)
(* A stored or shown value is [src, n]: the server-generated value of data *)
(* generation n, or the value n of an MQTT payload, or null.               *)
(***************************************************************************)

\* How often the page reloads the server's data.
MaxReloads == 2

\* current.observations[o].mqtt: the install's configuration has mqtt = false
\* for rain
MqttFlag == [o \in CurrentObservations |-> o # "rain"]

\* header.name: the observation of the header
HeaderName == "outTemp"

\* a value of the JSON payload: a number, or the field is not there
Number(n) == [present |-> TRUE, n |-> n]

PayloadValues == {Undefined, Number(0), Number(5)}

Messages ==
    [dateTime : {Undefined, Number(5)},
     fields : [CurrentObservations -> PayloadValues]]

PageOptionsJS == [MQTTConfig : BOOLEAN, pageMQTT : BOOLEAN]

\* current.header, current.observations.get(o), updateDate of a generation
Generated(n) == [src |-> "generated", n |-> n]

\* Number(value).toLocaleString(lang) of a payload value
FromMQTT(value) == [src |-> "mqtt", n |-> value.n]

\* if (value): undefined and the number 0 are false
JsTruthy(value) == value.present /\ value.n # 0

\* if (value != undefined)
JsDefined(value) == value.present

\* sessionStorage.getItem(o) === null || !jasOptions.MQTTConfig || !data.mqtt
StoreGeneratedAlways(stored, MQTTConfig, mqtt) == TRUE

StoreGenerated(stored, MQTTConfig, mqtt) ==
    stored = Null \/ ~MQTTConfig \/ ~mqtt

\* observationInfo.mqtt && test_obj[obs]
TakesPayload(mqtt, value) == mqtt /\ JsTruthy(value)

\* function updateCurrentObservations()
UpdateCurrentObservations ==
    LET header == IF storage.header = Null \/ ~jasOptions'.MQTTConfig
                     THEN Generated(br_data') ELSE storage.header
        items == [o \in CurrentObservations |->
                    IF StoreGenerated(storage.items[o], jasOptions'.MQTTConfig,
                                      MqttFlag[o])
                       THEN Generated(br_data') ELSE storage.items[o]]
        updateDate == IF storage.updateDate = Null \/ ~jasOptions'.MQTTConfig
                         THEN Generated(br_data') ELSE storage.updateDate
    IN /\ storage' = [header |-> header, updateDate |-> updateDate,
                      observations |-> TRUE, items |-> items]
       /\ dom' = [header |-> header, updateDate |-> updateDate,
                  values |-> items]

\* function updateCurrentMQTT(topic, test_obj)
UpdateCurrentMQTT(test_obj) ==
    LET mqttValue == test_obj.fields[HeaderName]
        header == IF storage.header # Null /\ JsDefined(mqttValue)
                     THEN FromMQTT(mqttValue) ELSE storage.header
        takes == {o \in CurrentObservations :
                     /\ storage.observations
                     /\ TakesPayload(MqttFlag[o], test_obj.fields[o])}
        items == [o \in CurrentObservations |->
                    IF o \in takes THEN FromMQTT(test_obj.fields[o])
                    ELSE storage.items[o]]
        updateDate == IF JsTruthy(test_obj.dateTime)
                         THEN FromMQTT(test_obj.dateTime)
                         ELSE storage.updateDate
    IN /\ storage' = [storage EXCEPT !.header = header, !.items = items,
                                     !.updateDate = updateDate]
       /\ dom' = [header |-> IF storage.header # Null THEN header ELSE dom.header,
                  updateDate |-> IF JsTruthy(test_obj.dateTime)
                                    THEN updateDate ELSE dom.updateDate,
                  values |-> [o \in CurrentObservations |->
                                IF o \in takes THEN items[o] ELSE dom.values[o]]]

\* the browser tab goes to a page of the site that has a 'current' section:
\* a new document, the same sessionStorage
BrowserLoad ==
    /\ br_pc' = "loading"
    /\ jasOptions' \in PageOptionsJS
    /\ dom' = BlankPage
    /\ br_event' = "load"
    /\ UNCHANGED <<br_data, storage, br_msg, notBrowser>>

\* handleDataLoaded, once the document and the data are loaded: updateData()
BrowserDataLoaded ==
    /\ br_pc = "loading"
    /\ br_pc' = "ready"
    /\ br_event' = "update"
    /\ UNCHANGED <<jasOptions, br_data>>
    /\ UpdateCurrentObservations
    /\ UNCHANGED <<br_msg, notBrowser>>

\* handleRefreshData: the server has generated new data, updateData()
BrowserReload ==
    /\ br_pc = "ready"
    /\ br_data < MaxReloads
    /\ br_data' = br_data + 1
    /\ br_event' = "update"
    /\ UNCHANGED <<br_pc, jasOptions>>
    /\ UpdateCurrentObservations
    /\ UNCHANGED <<br_msg, notBrowser>>

\* function handleMQTT(message)
BrowserMQTT ==
    /\ br_pc = "ready"
    /\ br_event' = "mqtt"
    /\ \E test_obj \in Messages :
         /\ br_msg' = test_obj
         /\ IF jasOptions.pageMQTT
               THEN UpdateCurrentMQTT(test_obj)
               ELSE UNCHANGED <<storage, dom>>
    /\ UNCHANGED <<br_pc, jasOptions, br_data, notBrowser>>

InitBrowser ==
    /\ IdleJAS
    /\ IdleCache
    /\ IdleRun
    /\ IdleWind
    /\ IdleChart
    /\ IdleObs
    /\ IdleBrowser
    /\ IdleSkip
    /\ IdleSeries
    /\ IdleCharts
    /\ IdleRange

NextBrowser == BrowserLoad \/ BrowserDataLoaded \/ BrowserReload \/ BrowserMQTT

SpecBrowser == InitBrowser /\ [][NextBrowser]_vars

\* C15: when MQTT is enabled, handling a message sets, for every
\* observation of the current section whose mqtt flag is on and for which
\* the payload has a value, the stored and the shown value to the payload's
\* value, for every numeric value, 0 included.
C15_MessageUpdatesCurrent ==
    (br_event = "mqtt" /\ jasOptions.MQTTConfig /\ jasOptions.pageMQTT) =>
        \A o \in CurrentObservations :
            (MqttFlag[o] /\ br_msg.fields[o].present) =>
                /\ storage.items[o] = [src |-> "mqtt", n |-> br_msg.fields[o].n]
                /\ dom.values[o] = [src |-> "mqtt", n |-> br_msg.fields[o].n]

NoInterval == 0

SecondsPerDay == 86400

\* the calls of _skip_generation: generate_once and first_run, the interval
\* type, whether the file exists and how old it is at stop_ts, whether the
\* time span includes stop_ts, the generate interval in seconds, stop_ts and
\* the offset of local time
SkipArgs ==
    [once : BOOLEAN, first_run : BOOLEAN,
     interval_type : {"historical", "active"},
     exists : BOOLEAN, includes : BOOLEAN,
     generate_interval : {NoInterval, 300, 3600},
     stop_ts : {90000, 90300, 90350},
     age : {0, 299, 300, 4000},
     utc_offset : {0, 1800}]

\* stop_ts - os.stat(filename).st_mtime >= generate_interval_seconds
TooOldStrict(age, generate_interval_seconds) == age > generate_interval_seconds

TooOld(age, generate_interval_seconds) == age >= generate_interval_seconds

\* tdiff.seconds: the seconds of stop_ts since local midnight
SecondsOfDay(stop_ts, utc_offset) == (stop_ts + utc_offset) % SecondsPerDay

\* abs(tdiff.seconds % generate_interval_seconds) < 1
OnBoundary(seconds, generate_interval_seconds) ==
    seconds % generate_interval_seconds < 1

\* what _skip_generation reads, from the times of a call
SkipInputsOf(args) ==
    [includes |-> args.includes,
     interval |-> args.generate_interval # NoInterval,
     young |-> /\ args.generate_interval # NoInterval
               /\ ~TooOld(args.age, args.generate_interval),
     boundary |-> /\ args.generate_interval # NoInterval
                  /\ OnBoundary(SecondsOfDay(args.stop_ts, args.utc_offset),
                                args.generate_interval)]

\* _skip_generation(generator_dict, timespan, generate_interval,
\*                  interval_type, filename, stop_ts)
SkipCall ==
    /\ skip_pc = "idle"
    /\ skip_pc' = "returned"
    /\ \E args \in SkipArgs :
         /\ skip_args' = args
         /\ skip_result' =
               SkipGeneration([pages_enable |-> "absent", once |-> args.once,
                               first_run |-> args.first_run],
                              args.interval_type, args.exists,
                              SkipInputsOf(args))
    /\ UNCHANGED notSkip

InitSkip ==
    /\ IdleJAS
    /\ IdleCache
    /\ IdleRun
    /\ IdleWind
    /\ IdleChart
    /\ IdleObs
    /\ IdleBrowser
    /\ IdleSkip
    /\ IdleSeries
    /\ IdleCharts
    /\ IdleRange

NextSkip == SkipCall

SpecSkip == InitSkip /\ [][NextSkip]_vars

\* C17: _skip_generation returns True exactly when (a) generate_once is true
\* and this is not the first run, or (b) the interval type is 'historical',
\* the file exists and the time span does not include stop_ts, or (c) a
\* generate interval is configured, the file exists, its age is less than
\* the interval and the seconds of stop_ts since local midnight are not a
\* multiple of the interval.
C17_SkipExactly ==
    skip_pc = "returned" =>
        LET a == skip_args.once /\ ~skip_args.first_run
            b == /\ skip_args.interval_type = "historical"
                 /\ skip_args.exists
                 /\ ~skip_args.includes
            c == /\ skip_args.generate_interval # 0
                 /\ skip_args.exists
                 /\ skip_args.age < skip_args.generate_interval
                 /\ \A k \in 0..288 :
                       (skip_args.stop_ts + skip_args.utc_offset) % 86400
                           # k * skip_args.generate_interval
        IN skip_result = (a \/ b \/ c)

C17_Witness ==
    /\ skip_pc = "returned"
    /\ ~skip_result
    /\ ~skip_args.once
    /\ skip_args.interval_type = "active"
    /\ skip_args.exists
    /\ skip_args.generate_interval = 3600
    /\ skip_args.age = 299
    /\ skip_args.stop_ts = 90000
    /\ skip_args.utc_offset = 0


(***************************************************************************)
(* ChartGenerator._gen_series and the JavaScript it generates              *)
(*                                                                         *)
(* The generated text is the sequence of its statements; the browser runs  *)
(* them in text order.                                                     *)
(***************************************************************************)

\* How many observations the series section of a chart has at most.
MaxSeries == 3

AggregateTypes == {"avg", "max", "sum"}

SeriesTypes == {"single", "multiple", "mqtt", "comparison"}

\* page_definition[page]['aggregate_interval'].get(aggregate_type, 'none')
\* for a page that gives an interval for avg and for max
AggregateInterval(aggregate_type) ==
    IF aggregate_type = "avg" THEN "hour"
    ELSE IF aggregate_type = "max" THEN "day"
    ELSE "none"

\* the statements of the text
Assign(value) == [stmt |-> "aggregate_interval =", arg |-> value]

VarOption == [stmt |-> "var option = {", arg |-> ""]

SeriesLine(stmt, obs) == [stmt |-> stmt, arg |-> obs]

\* the names of the observations of the series section, in order
ObsName(i) == <<"obs1", "obs2", "obs3", "obs4">>[i]

\* chart2 = "  aggregate_interval = '...'\n" + chart2
AssignPrepended(series_type_, aggregate_type, chart2) ==
    << IF series_type_ = "multiple" THEN Assign("multiyear")
       ELSE IF series_type_ = "mqtt" THEN Assign("mqtt")
       ELSE Assign(AggregateInterval(aggregate_type)) >>
    \o chart2

\* 'for obs in value', from observation i on
RECURSIVE GenSeriesFrom(_, _, _, _)
GenSeriesFrom(series_type_, value, chart2, i) ==
    IF i > Len(value) THEN chart2
    ELSE GenSeriesFrom(series_type_, value,
             AssignPrepended(series_type_, value[i], chart2)
                 \o << SeriesLine("{", ObsName(i)),
                       SeriesLine("_iterdict", ObsName(i)),
                       SeriesLine("},", ObsName(i)) >>,
             i + 1)

\* _gen_series(indent, page, chart, chart_js, series_type, value, ...) for a
\* series section; the years of a comparison are left to _get_range
GenSeries(chart_js, series_type_, value) ==
    LET opened == chart_js \o <<SeriesLine("series: [", "")>>
        items == IF series_type_ = "comparison"
                    THEN opened \o << SeriesLine("{", ObsName(1)),
                                      SeriesLine("_iterdict", ObsName(1)),
                                      SeriesLine("},", ObsName(1)) >>
                    ELSE GenSeriesFrom(series_type_, value, opened, 1)
    IN items \o <<SeriesLine("],", "")>>

\* the browser runs the statements up to 'var option = {'
RECURSIVE RunToOption(_, _)
RunToOption(js, interval) ==
    IF js = <<>> \/ Head(js) = VarOption THEN interval
    ELSE IF Head(js).stmt = "aggregate_interval ="
            THEN RunToOption(Tail(js), Head(js).arg)
            ELSE RunToOption(Tail(js), interval)

\* a chart with its series section is put on a page
SeriesDefine ==
    /\ series_pc = "idle"
    /\ series_pc' = "defined"
    /\ series_type' \in SeriesTypes
    /\ \E n \in 1..MaxSeries : series_value' \in [1..n -> AggregateTypes]
    /\ UNCHANGED <<series_js, aggregate_interval, notSeries>>

\* _gen_charts: chart_js = "  var option = {\n", then _gen_series
SeriesGenerate ==
    /\ series_pc = "defined"
    /\ series_pc' = "generated"
    /\ series_js' = GenSeries(<<VarOption>>, series_type, series_value)
    /\ UNCHANGED <<series_type, series_value, aggregate_interval, notSeries>>

\* setupCharts() runs in the browser
SeriesExecute ==
    /\ series_pc = "generated"
    /\ series_pc' = "executed"
    /\ aggregate_interval' = RunToOption(series_js, aggregate_interval)
    /\ UNCHANGED <<series_type, series_value, series_js, notSeries>>

InitSeries ==
    /\ IdleJAS
    /\ IdleCache
    /\ IdleRun
    /\ IdleWind
    /\ IdleChart
    /\ IdleObs
    /\ IdleBrowser
    /\ IdleSkip
    /\ IdleSeries
    /\ IdleCharts
    /\ IdleRange

NextSeries == SeriesDefine \/ SeriesGenerate \/ SeriesExecute

SpecSeries == InitSeries /\ [][NextSeries]_vars

\* C18: for a chart with several series, of a series type other than
\* 'comparison', 'multiple' and 'mqtt', the aggregate_interval in effect
\* when the chart's option object is built is the one of the aggregate type
\* of the last observation of the chart's series section.
C18_LastObservationDecides ==
    (series_pc = "executed"
        /\ series_type \notin {"comparison", "multiple", "mqtt"}) =>
        aggregate_interval =
            AggregateInterval(series_value[Len(series_value)])


(***************************************************************************)
(* ChartGenerator._gen_charts: the cache of the common chart options       *)
(***************************************************************************)

ChartNames == {"c1", "c2"}

PageSeriesTypes == {"single", "multiple", "mqtt"}

\* an option of chart_defaults.series_type.<series type>
SeriesTypeOption(series_type_, key) ==
    [path |-> <<key>>, sec |-> FALSE, value |-> "v",
     origin |-> <<"chart_defaults", "series_type", series_type_, key>>]

\* self.skin_dict['Extras']['chart_defaults']['series_type']
\*     .get(series_type, {})
SeriesTypeDefaults(series_type_) ==
    IF series_type_ = "single" THEN <<SeriesTypeOption("single", "a")>>
    ELSE IF series_type_ = "mqtt"
            THEN << SeriesTypeOption("mqtt", "a"),
                    SeriesTypeOption("mqtt", "type") >>
            ELSE <<>>

\* the chart definitions a site may have, as _set_chart_defs leaves them:
\* plain, with an option of its own, polar, and with a second y axis
ChartDefChoices ==
    LET plain == BaseChartDef
        own == Append(BaseChartDef, Option(<<"a">>, FALSE, "v"))
        polar == Append(BaseChartDef, Option(<<"polar">>, TRUE, ""))
        second == Append(BaseChartDef,
                         Option(<<"weewx", "yAxis", "1">>, TRUE, ""))
    IN { [c1 |-> plain, c2 |-> polar], [c1 |-> own, c2 |-> plain],
         [c1 |-> second, c2 |-> own] }

\* weeutil.config.conditional_merge(a_dict, b_dict) for scalars in b_dict
ConditionalMerge(a_dict, b_dict) ==
    a_dict \o SelectSeq(b_dict, LAMBDA e : ~Has(a_dict, e.path))

\* a chart on a page: [Extras][pages][page][chart], with its series type
PageChart(chart, chart_series_type) ==
    [chart |-> chart, series_type |-> chart_series_type]

\* the pages a site may have: a series type of the page definition and one
\* or two charts in some order
Pages ==
    { [series_type |-> t, charts |-> cs] :
        t \in PageSeriesTypes,
        cs \in UNION { [1..n -> { PageChart(c, s) :
                                    c \in ChartNames,
                                    s \in {"absent", "mqtt"} }] :
                        n \in 1..2 } }

\* a page has a chart once: the charts are the keys of its section, here in
\* the order of their names
PageOK(page) ==
    Len(page.charts) = 2 =>
        page.charts[1].chart = "c1" /\ page.charts[2].chart = "c2"

SitePages == { page \in Pages : PageOK(page) }

\* series_type of a chart on a page
SeriesTypeOf(page, i) ==
    IF page.charts[i].series_type = "mqtt" THEN "mqtt" ELSE page.series_type

\* chart_def = copy.deepcopy(self.chart_defs[chart]) and the conditional
\* merge of the series type's defaults
ChartDefOf(defs, chart, series_type_) ==
    IF Has(defs[chart], <<"polar">>) THEN defs[chart]
    ELSE ConditionalMerge(defs[chart], SeriesTypeDefaults(series_type_))

NotCached == [cached |-> FALSE, text |-> <<>>]

CachedText(text) == [cached |-> TRUE, text |-> text]

\* 'chart not in self.charts_javascript' or 'series_type not in
\* self.charts_javascript[chart]', with the chart alone as the key
MissesByChart(present, javascript, chart, series_type_) ==
    chart \notin present

\* 'chart not in self.charts_javascript' or 'series_type not in
\* self.charts_javascript[chart]'
Misses(present, javascript, chart, series_type_) ==
    \/ chart \notin present
    \/ ~javascript[chart][series_type_].cached

\* self.charts_javascript[chart][series_type]
Lookup(javascript, chart, series_type_) == javascript[chart][series_type_]

\* 'for chart in self.skin_dict['Extras']['pages'][page]', from chart i on;
\* st is what the loop has changed so far
RECURSIVE GenChartsFrom(_, _, _, _, _)
GenChartsFrom(defs, default, page, i, st) ==
    IF i > Len(page.charts) THEN st
    ELSE
      LET chart == page.charts[i].chart
          series_type_ == SeriesTypeOf(page, i)
          chart_def_ == ChartDefOf(defs, chart, series_type_)
          miss == Misses(st.present, st.javascript, chart, series_type_)
      IN IF miss /\ GenChartCommonRaises(chart_def_, default)
            THEN [st EXCEPT !.present = @ \cup {chart},
                            !.exc = "KeyError"]
            ELSE
              LET javascript ==
                      IF miss
                         THEN [st.javascript EXCEPT ![chart][series_type_] =
                                  CachedText(GenChartCommon(chart_def_,
                                                            default))]
                         ELSE st.javascript
                  returned ==
                      IF miss
                         THEN [st.returned EXCEPT ![chart][series_type_] =
                                  @ + 1]
                         ELSE st.returned
              IN GenChartsFrom(defs, default, page, i + 1,
                     [present |-> st.present \cup {chart},
                      hits |-> IF miss THEN st.hits ELSE st.hits + 1,
                      javascript |-> javascript,
                      returned |-> returned,
                      chart2 |-> Append(st.chart2,
                                   [chart |-> chart,
                                    series_type |-> series_type_,
                                    text |-> Lookup(javascript, chart,
                                                    series_type_).text]),
                      exc |-> "none"])

\* ChartGenerator.__init__: the cache is empty, _set_chart_defs has run
ChartsInit ==
    /\ charts_pc = "idle"
    /\ charts_pc' = "made"
    /\ chart_defs' \in ChartDefChoices
    /\ default_grid_properties' \in DefaultYAxes
    /\ charts_javascript' =
           [c \in ChartNames |-> [t \in PageSeriesTypes |-> NotCached]]
    /\ charts_present' = {}
    /\ charts_returned' = [c \in ChartNames |-> [t \in PageSeriesTypes |-> 0]]
    /\ UNCHANGED <<charts_hits, charts_chart2, charts_exc, notCharts>>

\* _gen_charts(filename, page, interval, page_name)
GenCharts ==
    /\ charts_pc = "made"
    /\ \E page \in SitePages :
         /\ LET st == GenChartsFrom(chart_defs, default_grid_properties,
                          page, 1,
                          [present |-> charts_present,
                           hits |-> 0,
                           javascript |-> charts_javascript,
                           returned |-> charts_returned,
                           chart2 |-> <<>>,
                           exc |-> "none"])
            IN /\ charts_present' = st.present
               /\ charts_hits' = st.hits
               /\ charts_javascript' = st.javascript
               /\ charts_returned' = st.returned
               /\ charts_chart2' = st.chart2
               /\ charts_exc' = st.exc
    /\ UNCHANGED <<charts_pc, chart_defs, default_grid_properties,
                   notCharts>>

InitCharts ==
    /\ IdleJAS
    /\ IdleCache
    /\ IdleRun
    /\ IdleWind
    /\ IdleChart
    /\ IdleObs
    /\ IdleBrowser
    /\ IdleSkip
    /\ IdleSeries
    /\ IdleCharts
    /\ IdleRange

NextCharts == ChartsInit \/ GenCharts

SpecCharts == InitCharts /\ [][NextCharts]_vars

\* what _gen_chart_common gives afresh for a chart and a series type
Fresh(chart, series_type_) ==
    GenChartCommon(ChartDefOf(chart_defs, chart, series_type_),
                   default_grid_properties)

\* C19: the common chart options are generated at most once for a chart
\* and a series type during the life of a ChartGenerator; the cached text
\* and the text put on every page that shows the chart equal what
\* _gen_chart_common gives afresh for the chart on that page, whatever the
\* order of the pages.
C19_CacheEqualsFresh ==
    charts_pc = "made" =>
        /\ \A c \in ChartNames, t \in PageSeriesTypes :
             /\ charts_returned[c][t] <= 1
             /\ charts_javascript[c][t].cached =>
                    /\ c \in charts_present
                    /\ charts_javascript[c][t].text = Fresh(c, t)
        /\ \A i \in DOMAIN charts_chart2 :
             charts_chart2[i].text =
                 Fresh(charts_chart2[i].chart, charts_chart2[i].series_type)

\* a page shows, from the cache, a chart under a second series type whose
\* options differ from those of the first
C19_Witness ==
    /\ charts_hits > 0
    /\ charts_exc = "none"
    /\ \E c \in ChartNames :
         /\ charts_javascript[c]["single"].cached
         /\ charts_javascript[c]["mqtt"].cached
         /\ charts_javascript[c]["single"].text
                # charts_javascript[c]["mqtt"].text
         /\ charts_returned[c]["single"] = 1
         /\ charts_returned[c]["mqtt"] = 1
         /\ \E i \in DOMAIN charts_chart2 :
              /\ charts_chart2[i].chart = c
              /\ charts_chart2[i].series_type = "mqtt"
              /\ charts_returned[c]["mqtt"] = 1


(***************************************************************************)
(* The two copies of _get_range                                            *)
(*                                                                         *)
(* A string is the sequence of its characters.                             *)
(***************************************************************************)

\* None, and a string of the configuration
NoneArg == [none |-> TRUE, str |-> <<>>]

StrArg(str) == [none |-> FALSE, str |-> str]

IsDigit(c) == \E i \in DOMAIN Digits : Digits[i] = c

DigitValue(c) == (CHOOSE i \in DOMAIN Digits : Digits[i] = c) - 1

\* int(s) of a string of digits
RECURSIVE Unsigned(_)
Unsigned(s) ==
    IF s = <<>> THEN 0
    ELSE 10 * Unsigned(SubSeq(s, 1, Len(s) - 1)) + DigitValue(s[Len(s)])

\* the digits of int(s): what follows an optional sign
DigitsOf(s) ==
    IF s # <<>> /\ s[1] \in {"+", "-"} THEN Tail(s) ELSE s

\* int(s) raises ValueError
IntRaises(s) ==
    \/ DigitsOf(s) = <<>>
    \/ \E i \in DOMAIN DigitsOf(s) : ~IsDigit(DigitsOf(s)[i])

\* int(s) for a string with an optional sign and digits
PyInt(s) ==
    IF s # <<>> /\ s[1] = "-" THEN 0 - Unsigned(DigitsOf(s))
    ELSE Unsigned(DigitsOf(s))

\* s[:1] and s[1:]
FirstChar(s) == IF s = <<>> THEN <<>> ELSE <<s[1]>>

AfterFirst(s) == IF s = <<>> THEN <<>> ELSE Tail(s)

\* the first and the last year of the archive
ArchiveYears == { <<2018, 2020>>, <<2020, 2020>>, <<2019, 2023>> }

Starts ==
    { NoneArg, StrArg(<<"+", "1">>), StrArg(<<"+", "4">>),
      StrArg(<<"-", "1">>), StrArg(<<"-", "6">>),
      StrArg(<<"2", "0", "1", "5">>), StrArg(<<"2", "0", "2", "0">>),
      StrArg(<<"+">>), StrArg(<<"+", "-", "1">>), StrArg(<<>>) }

Ends ==
    { NoneArg, StrArg(<<"2", "0", "1", "9">>),
      StrArg(<<"2", "0", "2", "0">>), StrArg(<<"2", "0", "3", "5">>),
      StrArg(<<"+", "1">>), StrArg(<<"2", "0", "2", "x">>) }

RangeReturned(start_year, end_year) ==
    [exc |-> "none", start_year |-> start_year, end_year |-> end_year]

RangeRaised(exc) == [exc |-> exc, start_year |-> 0, end_year |-> 0]

\* _get_range with the start year kept within the archive's years
GetRangeClamped(start, end, first_year, last_year) ==
    LET start_bad ==
            /\ ~start.none
            /\ IF FirstChar(start.str) \in {<<"+">>, <<"-">>}
                  THEN IntRaises(AfterFirst(start.str))
                  ELSE IntRaises(start.str)
        start_year ==
            IF start.none THEN first_year
            ELSE IF FirstChar(start.str) = <<"+">>
                    THEN first_year + PyInt(AfterFirst(start.str))
            ELSE IF FirstChar(start.str) = <<"-">>
                    THEN last_year - PyInt(AfterFirst(start.str))
            ELSE PyInt(start.str)
        clamped == IF start_year < first_year THEN first_year ELSE start_year
    IN IF start_bad \/ (~end.none /\ IntRaises(end.str))
          THEN RangeRaised("ValueError")
          ELSE RangeReturned(clamped,
                        IF end.none THEN last_year + 1 ELSE PyInt(end.str) + 1)

\* JAS._get_range(start, end, data_binding); first_year and last_year are
\* the years of dbm.firstGoodStamp() and dbm.lastGoodStamp()
GetRangeJAS(start, end, first_year, last_year) ==
    IF start.none
       THEN IF end.none
               THEN RangeReturned(first_year, last_year + 1)
               ELSE IF IntRaises(end.str) THEN RangeRaised("ValueError")
                    ELSE RangeReturned(first_year, PyInt(end.str) + 1)
    ELSE IF FirstChar(start.str) = <<"+">>
       THEN IF IntRaises(AfterFirst(start.str)) THEN RangeRaised("ValueError")
            ELSE IF end.none
               THEN RangeReturned(first_year + PyInt(AfterFirst(start.str)),
                             last_year + 1)
               ELSE IF IntRaises(end.str) THEN RangeRaised("ValueError")
                    ELSE RangeReturned(first_year + PyInt(AfterFirst(start.str)),
                                  PyInt(end.str) + 1)
    ELSE IF FirstChar(start.str) = <<"-">>
       THEN IF IntRaises(AfterFirst(start.str)) THEN RangeRaised("ValueError")
            ELSE IF end.none
               THEN RangeReturned(last_year - PyInt(AfterFirst(start.str)),
                             last_year + 1)
               ELSE IF IntRaises(end.str) THEN RangeRaised("ValueError")
                    ELSE RangeReturned(last_year - PyInt(AfterFirst(start.str)),
                                  PyInt(end.str) + 1)
    ELSE IF IntRaises(start.str) THEN RangeRaised("ValueError")
         ELSE IF end.none
            THEN RangeReturned(PyInt(start.str), last_year + 1)
            ELSE IF IntRaises(end.str) THEN RangeRaised("ValueError")
                 ELSE RangeReturned(PyInt(start.str), PyInt(end.str) + 1)

\* ChartGenerator._get_range(start, end, data_binding)
GetRangeChart(start, end, first_year, last_year) ==
    LET start_raises ==
            /\ ~start.none
            /\ IF FirstChar(start.str) = <<"+">>
                  THEN IntRaises(AfterFirst(start.str))
               ELSE IF FirstChar(start.str) = <<"-">>
                  THEN IntRaises(AfterFirst(start.str))
               ELSE IntRaises(start.str)
        start_year ==
            IF start.none THEN first_year
            ELSE IF FirstChar(start.str) = <<"+">>
                    THEN first_year + PyInt(AfterFirst(start.str))
            ELSE IF FirstChar(start.str) = <<"-">>
                    THEN last_year - PyInt(AfterFirst(start.str))
            ELSE PyInt(start.str)
        end_raises == ~end.none /\ IntRaises(end.str)
        end_year == IF end.none THEN last_year + 1 ELSE PyInt(end.str) + 1
    IN IF start_raises \/ end_raises THEN RangeRaised("ValueError")
       ELSE RangeReturned(start_year, end_year)

\* a page has start and end, the archive its years
RangeChoose ==
    /\ range_pc = "idle"
    /\ range_pc' = "called"
    /\ \E start \in Starts, end \in Ends, years \in ArchiveYears :
         range_args' = [start |-> start, end |-> end,
                        first_year |-> years[1], last_year |-> years[2]]
    /\ UNCHANGED <<range_jas, range_chart, notRange>>

\* the search list extension calls its copy
RangeJAS ==
    /\ range_pc = "called"
    /\ range_jas = NotCalled
    /\ range_jas' = GetRangeJAS(range_args.start, range_args.end,
                                range_args.first_year, range_args.last_year)
    /\ UNCHANGED <<range_pc, range_args, range_chart, notRange>>

\* the chart generator calls its copy
RangeChart ==
    /\ range_pc = "called"
    /\ range_chart = NotCalled
    /\ range_chart' = GetRangeChart(range_args.start, range_args.end,
                                    range_args.first_year,
                                    range_args.last_year)
    /\ UNCHANGED <<range_pc, range_args, range_jas, notRange>>

InitRange ==
    /\ IdleJAS
    /\ IdleCache
    /\ IdleRun
    /\ IdleWind
    /\ IdleChart
    /\ IdleObs
    /\ IdleBrowser
    /\ IdleSkip
    /\ IdleSeries
    /\ IdleCharts
    /\ IdleRange

NextRange == RangeChoose \/ RangeJAS \/ RangeChart

SpecRange == InitRange /\ [][NextRange]_vars

\* the pair the rules give for arguments that int() accepts
RuleStart(args) ==
    IF args.start.none THEN args.first_year
    ELSE IF args.start.str[1] = "+"
            THEN args.first_year + PyInt(Tail(args.start.str))
    ELSE IF args.start.str[1] = "-"
            THEN args.last_year - PyInt(Tail(args.start.str))
    ELSE PyInt(args.start.str)

RuleEnd(args) ==
    IF args.end.none THEN args.last_year + 1 ELSE PyInt(args.end.str) + 1

\* C20: the two copies of _get_range give the same for the same arguments;
\* what they return is (start_year, end_year) with start_year the first
\* archive year for None, first + n for '+n', last - n for '-n', int(start)
\* otherwise, and end_year last + 1 for None, int(end) + 1 otherwise, so
\* that range(start_year, end_year) has the end year asked for; no bound is
\* clamped to the years of the archive.
C20_SameRange ==
    /\ (range_jas # NotCalled /\ range_chart # NotCalled) =>
           range_jas = range_chart
    /\ \A r \in {range_jas, range_chart} :
           r.exc = "none" =>
               /\ r.start_year = RuleStart(range_args)
               /\ r.end_year = RuleEnd(range_args)
               /\ (~range_args.end.none
                      /\ r.start_year <= PyInt(range_args.end.str)) =>
                      PyInt(range_args.end.str)
                          \in r.start_year..(r.end_year - 1)

\* both copies have returned a range that starts before the first year of
\* the archive and ends after its last
C20_Witness ==
    /\ range_jas.exc = "none"
    /\ range_chart.exc = "none"
    /\ ~range_args.start.none
    /\ ~range_args.end.none
    /\ range_chart.start_year < range_args.first_year
    /\ range_jas.end_year > range_args.last_year + 1

====
